---- MODULE Spec2Model ----
(***************************************************************************)
(* A model of the soar package manager: the parallel install engine        *)
(* (registry/storage.rs), the per-package install worker                   *)
(* (registry/package/install.rs), the install tracker                      *)
(* (registry/installed.rs), remove (registry/package/remove.rs) and the    *)
(* metadata loader (registry/loader.rs, registry/fetcher.rs).              *)
(*                                                                         *)
(* File contents are sequences of chunk tokens; BLAKE3 is modelled by an   *)
(* injective positional encoding of the token sequence.                    *)
(***************************************************************************)
EXTENDS Integers, Sequences, FiniteSets, TLC

\* ---------------------------------------------------------------- bounds
\* number of chunks a remote object is streamed in
NChunks == 2
\* longest file the model lets a download grow (a server that ignores Range
\* makes every retry append the whole body again)
MaxStage == 4
\* number of operations (CLI runs) in one behaviour
MaxOps == 3

\* ------------------------------------------------------------- the catalog
\* ResolvedPackage = (repo_name, collection, Package); names are sequences of
\* characters because symlink_bin slices and rewrites them.
Catalog ==
  << [repo |-> "r", collection |-> "bin",  pkg |-> <<"a">>, family |-> <<>>,
      pkg_name |-> "a", version |-> "a1", nullsum |-> FALSE, ftype |-> "elf"],
     [repo |-> "r", collection |-> "bin",  pkg |-> <<"b">>, family |-> <<>>,
      pkg_name |-> "b", version |-> "b1", nullsum |-> FALSE, ftype |-> "appimage"],
     [repo |-> "r", collection |-> "base", pkg |-> <<"a">>, family |-> <<>>,
      pkg_name |-> "a", version |-> "a2", nullsum |-> FALSE, ftype |-> "elf"],
     [repo |-> "r", collection |-> "bin",  pkg |-> <<"a">>, family |-> <<"g">>,
      pkg_name |-> "a", version |-> "a3", nullsum |-> FALSE, ftype |-> "elf"],
     [repo |-> "r", collection |-> "bin",  pkg |-> <<"n">>, family |-> <<>>,
      pkg_name |-> "n", version |-> "n1", nullsum |-> TRUE,  ftype |-> "flatimage"] >>

Pkgs == 1 .. Len(Catalog)

BinNames == {Catalog[p].pkg_name : p \in Pkgs}

\* Package::full_name(join_char)
full_name(p, join_char) ==
  IF Catalog[p].family # <<>>
    THEN Catalog[p].family \o <<join_char>> \o Catalog[p].pkg
    ELSE Catalog[p].pkg

\* ------------------------------------------------------------ file contents
\* a path with no file behind it (no chunk token is 0)
NoFile == <<0>>

\* the literal "null" a catalog entry carries instead of a checksum
NullSum == -1

\* What the server behind a download_url serves: the object the catalog's
\* bsum was computed from ("listed") or a different one ("other").
Objects == {"listed", "other"}

Token(p, o, i) == ((p - 1) * 2 + (IF o = "listed" THEN 0 ELSE 1)) * NChunks + i

\* the listed object has NChunks chunks, the other one is a chunk shorter
ObjLen(o) == IF o = "listed" THEN NChunks ELSE NChunks - 1

Obj(p, o) == [i \in 1 .. ObjLen(o) |-> Token(p, o, i)]

HashBase == Len(Catalog) * 2 * NChunks + 1

\* calculate_checksum: BLAKE3 of a file's bytes, modelled by the positional
\* numeral of the token sequence (injective: no token is 0).
RECURSIVE calculate_checksum(_)
calculate_checksum(s) ==
  IF s = <<>> THEN 0
  ELSE s[Len(s)] + HashBase * calculate_checksum(SubSeq(s, 1, Len(s) - 1))

\* Package.bsum
bsum(p) == IF Catalog[p].nullsum THEN NullSum ELSE calculate_checksum(Obj(p, "listed"))

\* validate_checksum(checksum, file_path): Ok iff the file can be read and
\* its digest is the expected one
validate_checksum(expected, content) ==
  content # NoFile /\ calculate_checksum(content) = expected

\* ------------------------------------------------------------------ paths
\* Package::get_install_dir(checksum): <packages>/<checksum[..8]>-<full_name('-')>.
\* The slice panics on a checksum shorter than 8 bytes, which "null" is.
CanSlice(checksum) == checksum # NullSum

get_install_dir(p, checksum) == [sum |-> checksum, name |-> full_name(p, "-")]

NoDir == [sum |-> 0, name |-> <<>>]

RECURSIVE LastDot(_)
LastDot(s) == IF s = <<>> THEN 0 ELSE IF s[Len(s)] = "." THEN Len(s) ELSE LastDot(SubSeq(s, 1, Len(s) - 1))

\* Installer::new: <packages>/tmp/<full_name('-')>.with_extension("part");
\* with_extension replaces what follows the last '.' of the file name
temp_path(p) ==
  LET n == full_name(p, "-")
      d == LastDot(n)
  IN IF d > 1 THEN SubSeq(n, 1, d - 1) ELSE n

StageKeys == {temp_path(p) : p \in Pkgs}

\* str::replacen(from, to, 1)
RECURSIVE replacen(_, _, _)
replacen(s, from, to) ==
  IF s = <<>> THEN <<>>
  ELSE IF Head(s) = from THEN <<to>> \o Tail(s)
  ELSE <<Head(s)>> \o replacen(Tail(s), from, to)

\* ------------------------------------------------------------------ state
VARIABLES
  served,   \* served[p]: which object the server behind p's download_url serves
  ranges,   \* TRUE iff the server honours Range requests
  staging,  \* <packages>/tmp/<key>.part: contents, or NoFile
  store,    \* <packages>/<dir>: the install directories that exist
  bin,      \* <bin>/<name>: what is at that path
  tracker,  \* InstalledPackages.packages, as persisted in <installs>/latest
  lock,     \* holder of the tracker mutex (a worker slot), 0 when free
  op,       \* the operation the process is running
  queue,    \* the packages handed to the workers of the running operation
  next,     \* index of the next package of queue to start
  permits,  \* free permits of the semaphore
  w,        \* the workers, one per slot
  ops,      \* operations started so far
  last,     \* how the last remove or use ended
  remote,   \* the version of metadata.json the repository serves
  cache,    \* <registry>/<repo>: its contents, <<>> if absent
  sidecar,  \* <registry>/<repo>.remote.bsum: its contents, <<>> if absent
  loader,   \* the run of the metadata pipeline
  reg,      \* the run of PackageRegistry::load_or_fetch_packages
  latest,   \* <installs>/latest byte by byte, where a save is followed step by step
  qry,      \* a query string given on the command line and what was computed from it
  cli,      \* a run of handle_cli: its arguments, the directories and cache files it meets
  probe     \* a file handed to get_file_type, and its classification

metaVars == <<remote, cache, sidecar, loader, reg, latest, qry, cli, probe>>

vars == <<served, ranges, staging, store, bin, tracker, lock, op, queue, next, permits, w, ops, last,
          remote, cache, sidecar, loader, reg, latest, qry, cli, probe>>

\* what no step of install, remove or use changes
envVars == <<served, ranges, metaVars>>
fsVars == <<staging, store, bin>>
engineVars == <<op, queue, next, ops, last>>

\* CONFIG.parallel_limit, as the model's configuration sets it
parallel_limit == 2

Slots == 1 .. 4

Idle == [kind |-> "idle", force |-> FALSE, yes |-> FALSE, parallel |-> FALSE]

NoHandle == [k |-> "none", key |-> <<>>, dir |-> NoDir]

Fresh ==
  [pc |-> "none", dl |-> 0, body |-> <<>>, h |-> NoHandle, sum |-> 0,
   dir |-> NoDir, verdict |-> "none", err |-> "none"]

\* a <bin> entry: nothing, a symlink to <packages>/<dir>/<name>, or something
\* soar did not put there (a file, or a symlink that leaves <packages>/)
NoEntry == [k |-> "none", dir |-> NoDir]
Foreign == [k |-> "foreign", dir |-> NoDir]
Link(d) == [k |-> "link", dir |-> d]

\* an install directory: the artifact at install_path, its user.managed_by
\* xattr, the integration files next to it; promoted and by are history (the
\* verdict of the verify stage on the staging file that was renamed here, and
\* the package whose worker renamed it)
EmptyDir == [file |-> NoFile, tag |-> FALSE, extras |-> FALSE, promoted |-> "none", by |-> 0]

Finished(i) == w[i].pc \in {"done", "failed"}

InFlight == {i \in Slots : w[i].pc \notin {"none", "done", "failed", "killed"}}

\* Path::exists on install_path
HasArtifact(st, d) == d \in DOMAIN st /\ st[d].file # NoFile

\* ------------------------------------------------------------ the tracker
Matches(r, p) ==
  /\ r.repo_name = Catalog[p].repo
  /\ r.collection = Catalog[p].collection
  /\ r.name = full_name(p, "-")

\* InstalledPackages::is_installed
is_installed(tr, p) == \E k \in 1 .. Len(tr) : Matches(tr[k], p)

\* InstalledPackages::find_package: index of the first matching record, 0 if none
find_package(tr, p) ==
  IF is_installed(tr, p)
    THEN CHOOSE k \in 1 .. Len(tr) : Matches(tr[k], p) /\ \A j \in 1 .. k - 1 : ~Matches(tr[j], p)
    ELSE 0

NewRecord(p, checksum) ==
  [repo_name |-> Catalog[p].repo, collection |-> Catalog[p].collection,
   name |-> full_name(p, "-"), bin_name |-> Catalog[p].pkg_name,
   version |-> Catalog[p].version, checksum |-> checksum]

\* register_package without the lookup of find_package_mut: always a push
register_package_as_append(tr, p, checksum) == Append(tr, NewRecord(p, checksum))

\* InstalledPackages::register_package (with the save that ends it)
register_package(tr, p, checksum) ==
  LET k == find_package(tr, p)
  IN IF k # 0
       THEN [tr EXCEPT ![k].version = Catalog[p].version, ![k].checksum = bsum(p)]
       ELSE Append(tr, NewRecord(p, checksum))

RECURSIVE Retain(_, _)
Retain(tr, p) ==
  IF tr = <<>> THEN <<>>
  ELSE IF Matches(Head(tr), p) THEN Retain(Tail(tr), p)
  ELSE <<Head(tr)>> \o Retain(Tail(tr), p)

\* InstalledPackages::unregister_package (is_installed is checked by the caller)
unregister_package(tr, p) == Retain(tr, p)

\* ------------------------------------------------------- file system steps
\* every open handle on the file behind staging key k follows the file
Retarget(ws, k, to) ==
  [j \in Slots |-> IF ws[j].h.k = "stage" /\ ws[j].h.key = k
                     THEN [ws[j] EXCEPT !.h = to] ELSE ws[j]]

\* handles on the artifact of directory d lose their path when it is unlinked
Orphan(ws, d) ==
  [j \in Slots |-> IF ws[j].h.k = "inst" /\ ws[j].h.dir = d
                     THEN [ws[j] EXCEPT !.h = [k |-> "orphan", key |-> <<>>, dir |-> NoDir]]
                     ELSE ws[j]]

RmDir(st, d) == [x \in DOMAIN st \ {d} |-> st[x]]

MkDir(st, d) == IF d \in DOMAIN st THEN st ELSE (d :> EmptyDir) @@ st

\* the length of the file a handle writes to
HandleLen(i) ==
  LET h == w[i].h
  IN IF h.k = "stage" THEN Len(staging[h.key])
     ELSE IF h.k = "inst" THEN Len(store[h.dir].file)
     ELSE 0

\* ------------------------------------------------- the worker (Installer)
Pk(i) == queue[i]

Release == permits' = permits + (IF op.parallel THEN 1 ELSE 0)

\* the worker's future ends with an error; its permit is dropped after it
Fail(ws, i, e) ==
  /\ w' = [ws EXCEPT ![i].pc = "failed", ![i].err = e, ![i].h = NoHandle, ![i].body = <<>>]
  /\ Release

Go(ws, i, pc) == w' = [ws EXCEPT ![i].pc = pc] /\ UNCHANGED permits

\* install.rs 61-76: is_installed under the tracker lock, the force check
WStart(i) ==
  /\ w[i].pc = "start"
  /\ lock = 0
  /\ IF ~op.force /\ is_installed(tracker, Pk(i))
       THEN Fail(w, i, "installed")
       ELSE Go(w, i, "stat")
  /\ UNCHANGED <<envVars, fsVars, tracker, lock, engineVars>>

\* install.rs 86-93: downloaded_bytes = length of the staging file, 0 if none
WStat(i) ==
  /\ w[i].pc = "stat"
  /\ w' = [w EXCEPT ![i].pc = "request",
                    ![i].dl = IF staging[temp_path(Pk(i))] = NoFile THEN 0
                              ELSE Len(staging[temp_path(Pk(i))])]
  /\ UNCHANGED <<envVars, fsVars, tracker, lock, engineVars, permits>>

\* what the server answers to "Range: bytes=dl-": the rest of the object, the
\* whole object when it ignores Range, <<0>> for 416 Range Not Satisfiable
Unsatisfiable == <<0>>

Response(p, dl) ==
  LET o == Obj(p, served[p])
  IN IF ~ranges THEN o
     ELSE IF dl >= Len(o) THEN Unsatisfiable
     ELSE SubSeq(o, dl + 1, Len(o))

\* install.rs 95-104, 143-158: the request, the status check, the staging
\* file opened with create + append
WRequest(i) ==
  LET k == temp_path(Pk(i))
      r == Response(Pk(i), w[i].dl)
  IN /\ w[i].pc = "request"
     /\ IF r = Unsatisfiable
          THEN Fail(w, i, "range") /\ UNCHANGED staging
          ELSE /\ staging' = IF staging[k] = NoFile THEN [staging EXCEPT ![k] = <<>>] ELSE staging
               /\ w' = [w EXCEPT ![i].pc = "stream", ![i].body = r,
                                 ![i].h = [k |-> "stage", key |-> k, dir |-> NoDir]]
               /\ UNCHANGED permits
     /\ UNCHANGED <<envVars, store, bin, tracker, lock, engineVars>>

\* install.rs 95-100, 143-149: the request fails or the status is not 2xx
WNetFail(i) ==
  /\ w[i].pc = "request"
  /\ Fail(w, i, "network")
  /\ UNCHANGED <<envVars, fsVars, tracker, lock, engineVars>>

\* install.rs 161-165: one chunk arrives and is appended through the handle
WChunk(i) ==
  LET h == w[i].h
      c == Head(w[i].body)
  IN /\ w[i].pc = "stream"
     /\ w[i].body # <<>>
     /\ HandleLen(i) < MaxStage
     /\ staging' = IF h.k = "stage" THEN [staging EXCEPT ![h.key] = Append(@, c)] ELSE staging
     /\ store' = IF h.k = "inst" THEN [store EXCEPT ![h.dir].file = Append(@, c)] ELSE store
     /\ w' = [w EXCEPT ![i].body = Tail(@)]
     /\ UNCHANGED <<envVars, bin, tracker, lock, engineVars, permits>>

\* install.rs 162: reading the next chunk fails
WChunkError(i) ==
  /\ w[i].pc = "stream"
  /\ w[i].body # <<>>
  /\ Fail(w, i, "network")
  /\ UNCHANGED <<envVars, fsVars, tracker, lock, engineVars>>

\* a worker that promotes what it downloaded without the checksum check
WStreamEnd_as_unverified(i) ==
  /\ w[i].pc = "stream"
  /\ w[i].body = <<>>
  /\ w' = [w EXCEPT ![i].pc = "sum", ![i].h = NoHandle, ![i].verdict = "accepted"]
  /\ UNCHANGED <<envVars, fsVars, tracker, lock, engineVars, permits>>

\* install.rs 166-169: the stream ends, the file is flushed and closed
WStreamEnd(i) ==
  /\ w[i].pc = "stream"
  /\ w[i].body = <<>>
  /\ w' = [w EXCEPT ![i].pc = "verify", ![i].h = NoHandle]
  /\ UNCHANGED <<envVars, fsVars, tracker, lock, engineVars, permits>>

\* install.rs 171-196: the checksum check of the staging file
Verdict(p, content, yes) ==
  IF bsum(p) = NullSum THEN "null"
  ELSE IF validate_checksum(bsum(p), content) THEN "matched"
  ELSE IF yes THEN "accepted"
  ELSE "ask"

WVerify(i) ==
  LET v == Verdict(Pk(i), staging[temp_path(Pk(i))], op.yes)
  IN /\ w[i].pc = "verify"
     /\ w' = [w EXCEPT ![i].pc = IF v = "ask" THEN "prompt" ELSE "sum",
                       ![i].verdict = IF v = "ask" THEN "none" ELSE v]
     /\ UNCHANGED <<envVars, fsVars, tracker, lock, engineVars, permits>>

\* install.rs 191-194: the user answers y, the staging file is removed
WPromptDelete(i) ==
  LET k == temp_path(Pk(i))
  IN /\ w[i].pc = "prompt"
     /\ IF staging[k] = NoFile
          THEN Fail(w, i, "fs") /\ UNCHANGED staging
          ELSE /\ staging' = [staging EXCEPT ![k] = NoFile]
               /\ Fail(Retarget(w, k, [k |-> "orphan", key |-> <<>>, dir |-> NoDir]), i, "checksum")
     /\ UNCHANGED <<envVars, store, bin, tracker, lock, engineVars>>

\* install.rs 191: any other answer keeps the file and the install goes on
WPromptKeep(i) ==
  /\ w[i].pc = "prompt"
  /\ w' = [w EXCEPT ![i].pc = "sum", ![i].verdict = "accepted"]
  /\ UNCHANGED <<envVars, fsVars, tracker, lock, engineVars, permits>>

\* install.rs 198-207: the checksum of the staging file names the install
\* directory, which is created
WSum(i) ==
  LET p == Pk(i)
      c == staging[temp_path(p)]
      d == get_install_dir(p, calculate_checksum(c))
  IN /\ w[i].pc = "sum"
     /\ IF c = NoFile
          THEN Fail(w, i, "fs") /\ UNCHANGED store
          ELSE /\ store' = MkDir(store, d)
               /\ w' = [w EXCEPT ![i].pc = "save", ![i].sum = calculate_checksum(c), ![i].dir = d]
               /\ UNCHANGED permits
     /\ UNCHANGED <<envVars, staging, bin, tracker, lock, engineVars>>

OrphanHandle == [k |-> "orphan", key |-> <<>>, dir |-> NoDir]

\* a save_file that refuses an install_path that already exists
WSave_as_no_overwrite(i) ==
  LET k == temp_path(Pk(i))
      d == w[i].dir
  IN /\ w[i].pc = "save"
     /\ IF d \notin DOMAIN store \/ HasArtifact(store, d) \/ staging[k] = NoFile
          THEN Fail(w, i, "fs") /\ UNCHANGED <<staging, store>>
          ELSE /\ store' = [store EXCEPT ![d].file = staging[k], ![d].tag = FALSE,
                                         ![d].promoted = w[i].verdict,
                                         ![d].by = Pk(i)]
               /\ staging' = [staging EXCEPT ![k] = NoFile]
               /\ Go(Retarget(Orphan(w, d), k, [k |-> "inst", key |-> <<>>, dir |-> d]), i, "tag")
     /\ UNCHANGED <<envVars, bin, tracker, lock, engineVars>>

\* save_file, install.rs 283-286: an artifact already at install_path is
\* removed, then the staging file is renamed to install_path
WSave(i) ==
  LET k == temp_path(Pk(i))
      d == w[i].dir
  IN /\ w[i].pc = "save"
     /\ IF d \notin DOMAIN store
          THEN Fail(w, i, "fs") /\ UNCHANGED <<staging, store>>
          ELSE IF staging[k] = NoFile
            THEN /\ store' = [store EXCEPT ![d].file = NoFile, ![d].tag = FALSE]
                 /\ Fail(Orphan(w, d), i, "fs")
                 /\ UNCHANGED staging
            ELSE /\ store' = [store EXCEPT ![d].file = staging[k], ![d].tag = FALSE,
                                           ![d].promoted = w[i].verdict,
                                           ![d].by = Pk(i)]
                 /\ staging' = [staging EXCEPT ![k] = NoFile]
                 /\ Go(Retarget(Orphan(w, d), k, [k |-> "inst", key |-> <<>>, dir |-> d]), i, "tag")
     /\ UNCHANGED <<envVars, bin, tracker, lock, engineVars>>

\* save_file, install.rs 287-288: mode 0o755 and the xattr user.managed_by
WTag_as_untagged(i) ==
  /\ w[i].pc = "tag"
  /\ IF ~HasArtifact(store, w[i].dir)
       THEN Fail(w, i, "fs") /\ UNCHANGED store
       ELSE UNCHANGED store /\ Go(w, i, "symlink")
  /\ UNCHANGED <<envVars, staging, bin, tracker, lock, engineVars>>

WTag(i) ==
  /\ w[i].pc = "tag"
  /\ IF ~HasArtifact(store, w[i].dir)
       THEN Fail(w, i, "fs") /\ UNCHANGED store
       ELSE store' = [store EXCEPT ![w[i].dir].tag = TRUE] /\ Go(w, i, "symlink")
  /\ UNCHANGED <<envVars, staging, bin, tracker, lock, engineVars>>

\* Path::exists on <bin>/<name>: it follows a symlink
EntryExists(e) == e.k = "foreign" \/ (e.k = "link" /\ HasArtifact(store, e.dir))

\* symlink_bin, install.rs 301-302: the owner read off the link's directory
\* name, "<8 hex>-<full name>", with its first '-' turned into '/'
OwnerOf(d) == replacen(d.name, "-", "/")

\* symlink_bin, install.rs 293-338, up to the prompt
WSymlink(i) ==
  LET p == Pk(i)
      d == w[i].dir
      n == Catalog[p].pkg_name
      e == bin[n]
  IN /\ w[i].pc = "symlink"
     /\ IF ~EntryExists(e)
          THEN IF e.k = "none"
                 THEN bin' = [bin EXCEPT ![n] = Link(d)] /\ Go(w, i, "integrate") /\ UNCHANGED store
                 ELSE Fail(w, i, "fs") /\ UNCHANGED <<bin, store>>
          ELSE IF e.k = "link" /\ e.dir # d
            THEN IF OwnerOf(e.dir) = full_name(p, "-")
                   THEN /\ store' = RmDir(store, e.dir)
                        /\ bin' = [bin EXCEPT ![n] = Link(d)]
                        /\ Go(Orphan(w, e.dir), i, "integrate")
                   ELSE Go(w, i, "askswitch") /\ UNCHANGED <<bin, store>>
            ELSE bin' = [bin EXCEPT ![n] = Link(d)] /\ Go(w, i, "integrate") /\ UNCHANGED store
     /\ UNCHANGED <<envVars, staging, tracker, lock, engineVars>>

\* symlink_bin, install.rs 320-329: the answer is y, the link is replaced
WSwitchYes(i) ==
  /\ w[i].pc = "askswitch"
  /\ bin' = [bin EXCEPT ![Catalog[Pk(i)].pkg_name] = Link(w[i].dir)]
  /\ Go(w, i, "integrate")
  /\ UNCHANGED <<envVars, staging, store, tracker, lock, engineVars>>

\* symlink_bin, install.rs 320-322: any other answer leaves the link
WSwitchNo(i) ==
  /\ w[i].pc = "askswitch"
  /\ Go(w, i, "integrate")
  /\ UNCHANGED <<envVars, fsVars, tracker, lock, engineVars>>

\* install.rs 212-242: the artifact is opened and classified; an AppImage or
\* FlatImage gets its icon and desktop file next to it when that works
WIntegrate(i) ==
  LET d == w[i].dir
  IN /\ w[i].pc = "integrate"
     /\ IF ~HasArtifact(store, d)
          THEN Fail(w, i, "fs") /\ UNCHANGED store
          ELSE /\ \E ok \in (IF Catalog[Pk(i)].ftype = "elf" THEN {FALSE} ELSE BOOLEAN) :
                    store' = [store EXCEPT ![d].extras = @ \/ ok]
               /\ Go(w, i, "reglock")
     /\ UNCHANGED <<envVars, staging, bin, tracker, lock, engineVars>>

\* a guard that is handed out while another worker holds it
WRegLock_as_no_mutex(i) ==
  /\ w[i].pc = "reglock"
  /\ lock' = i
  /\ Go(w, i, "register")
  /\ UNCHANGED <<envVars, fsVars, tracker, engineVars>>

\* install.rs 245: the tracker mutex is taken
WRegLock(i) ==
  /\ w[i].pc = "reglock"
  /\ lock = 0
  /\ lock' = i
  /\ Go(w, i, "register")
  /\ UNCHANGED <<envVars, fsVars, tracker, engineVars>>

\* install.rs 246-249 and storage.rs 159-162: the record is written, the
\* mutex released, the worker counted and its permit dropped
WRegister(i) ==
  /\ w[i].pc = "register"
  /\ lock = i
  /\ tracker' = register_package(tracker, Pk(i), w[i].sum)
  /\ lock' = 0
  /\ w' = [w EXCEPT ![i].pc = "done"]
  /\ Release
  /\ UNCHANGED <<envVars, fsVars, engineVars>>

\* ------------------------------------------------------- the install engine
NoResult == [kind |-> "none", pkg |-> 0, res |-> "none"]

\* the partition without the filter: every resolved package is kept
ToInstall_as_keep_all(b, force) == b

\* storage.rs 98-117: a package with a tracker record is dropped from the
\* batch unless force is given
ToInstall(b, force) == SelectSeq(b, LAMBDA p : force \/ ~is_installed(tracker, p))

\* storage.rs 71-128: install_packages up to the first spawn
StartInstall(b, force, yes, parallel) ==
  /\ op.kind = "idle"
  /\ ops < MaxOps
  /\ op' = [kind |-> "install", force |-> force, yes |-> yes, parallel |-> parallel]
  /\ queue' = ToInstall(b, force)
  /\ next' = 1
  /\ permits' = parallel_limit
  /\ w' = [i \in Slots |-> Fresh]
  /\ ops' = ops + 1
  /\ last' = NoResult
  /\ UNCHANGED <<envVars, fsVars, tracker, lock>>

\* Semaphore::acquire_owned completes only while a permit is free
acquire_owned_as_unbounded(n) == TRUE

acquire_owned(n) == n > 0

\* storage.rs 132-166: the loop takes a permit, then spawns the next worker
Spawn ==
  /\ op.kind = "install"
  /\ op.parallel
  /\ next <= Len(queue)
  /\ acquire_owned(permits)
  /\ permits' = permits - 1
  /\ w' = [w EXCEPT ![next].pc = "start"]
  /\ next' = next + 1
  /\ UNCHANGED <<envVars, fsVars, tracker, lock, op, queue, ops, last>>

\* storage.rs 172-191: without parallel the next install starts when the
\* one before it has returned
SpawnSeq ==
  /\ op.kind = "install"
  /\ ~op.parallel
  /\ next <= Len(queue)
  /\ IF next = 1 THEN TRUE ELSE Finished(next - 1)
  /\ w' = [w EXCEPT ![next].pc = "start"]
  /\ next' = next + 1
  /\ UNCHANGED <<envVars, fsVars, tracker, lock, op, queue, ops, last, permits>>

AllFinished == next > Len(queue) /\ \A i \in 1 .. Len(queue) : Finished(i)

\* storage.rs 168-200: every handle is joined, the summary is printed
FinishInstall ==
  /\ op.kind = "install"
  /\ AllFinished
  /\ op' = Idle
  /\ UNCHANGED <<envVars, fsVars, tracker, lock, queue, next, permits, w, ops, last>>

\* the process is stopped while it installs: every task is dropped where it
\* is, the files stay as they are
Kill ==
  /\ op.kind = "install"
  /\ ~AllFinished
  /\ op' = Idle
  /\ w' = [i \in Slots |-> IF w[i].pc \in {"none", "done", "failed"} THEN w[i]
                           ELSE [w[i] EXCEPT !.pc = "killed", !.h = NoHandle, !.body = <<>>]]
  /\ lock' = 0
  /\ last' = [kind |-> "install", pkg |-> 0, res |-> "killed"]
  /\ UNCHANGED <<envVars, fsVars, tracker, queue, next, permits, ops>>

\* ------------------------------------------------------------- queries
\* longest query string tried
MaxQuery == 4

\* the characters a query is made of
Chars == {"c", "C", "g", "b", "#", "/", " "}

\* char::to_lowercase on those characters
Lower(ch) == IF ch = "C" THEN "c" ELSE ch

\* str::to_lowercase
to_lowercase(s) == [i \in 1 .. Len(s) |-> Lower(s[i])]

\* position of the first and of the last ch in s, 0 when there is none
FirstIndex(s, ch) ==
  IF \E i \in 1 .. Len(s) : s[i] = ch
    THEN CHOOSE i \in 1 .. Len(s) : s[i] = ch /\ \A j \in 1 .. i - 1 : s[j] # ch
    ELSE 0

LastIndex(s, ch) ==
  IF \E i \in 1 .. Len(s) : s[i] = ch
    THEN CHOOSE i \in 1 .. Len(s) : s[i] = ch /\ \A j \in i + 1 .. Len(s) : s[j] # ch
    ELSE 0

\* Option<String>
None == [some |-> FALSE, v |-> <<>>]
Some(s) == [some |-> TRUE, v |-> s]

\* parse_package_query, package/mod.rs 105-122
parse_package_query(query) ==
  LET q == to_lowercase(query)
      h == LastIndex(q, "#")
      base_query == IF h = 0 THEN q ELSE SubSeq(q, 1, h - 1)
      r == IF h = 0 THEN <<>> ELSE SubSeq(q, h + 1, Len(q))
      collection == IF h # 0 /\ r # <<>> THEN Some(to_lowercase(r)) ELSE None
      sl == FirstIndex(base_query, "/")
      name == IF sl = 0 THEN base_query ELSE SubSeq(base_query, sl + 1, Len(base_query))
      family == IF sl = 0 THEN None ELSE Some(SubSeq(base_query, 1, sl - 1))
  IN [name |-> name, family |-> family, collection |-> collection]

\* a query written back as [family/]name[#collection]
serialize(pq) ==
  (IF pq.family.some THEN pq.family.v \o <<"/">> ELSE <<>>)
    \o pq.name
    \o (IF pq.collection.some THEN <<"#">> \o pq.collection.v ELSE <<>>)

\* every string of at most n characters
RECURSIVE Strings(_)
Strings(n) ==
  IF n = 0 THEN {<<>>}
  ELSE LET shorter == Strings(n - 1)
       IN shorter \cup {Append(s, ch) : s \in {t \in shorter : Len(t) = n - 1}, ch \in Chars}

NoPQ == [name |-> <<>>, family |-> None, collection |-> None]

\* str::trim
trim(s) ==
  IF \A i \in 1 .. Len(s) : s[i] = " " THEN <<>>
  ELSE LET a == CHOOSE i \in 1 .. Len(s) : s[i] # " " /\ \A j \in 1 .. i - 1 : s[j] = " "
           b == CHOOSE i \in 1 .. Len(s) : s[i] # " " /\ \A j \in i + 1 .. Len(s) : s[j] = " "
       IN SubSeq(s, a, b)

\* Package.family as an Option
FamilyOf(p) == IF Catalog[p].family = <<>> THEN None ELSE Some(Catalog[p].family)

\* PackageStorage::get_packages, storage.rs 287-326, over the catalog the
\* installs are made from, in catalog order
GetCatalog(query) ==
  SelectSeq([p \in Pkgs |-> p],
            LAMBDA p :
              /\ ~query.collection.some \/ Catalog[p].collection = query.collection.v
              /\ to_lowercase(Catalog[p].pkg) = trim(query.name)
              /\ Catalog[p].pkg = trim(query.name)
              /\ ~query.family.some \/ FamilyOf(p) = query.family)

\* remove_symlink without the comparison of the link's target
Remove_as_unlink_always(p) ==
  LET k == find_package(tracker, p)
      c == tracker[k].checksum
      d == get_install_dir(p, c)
      n == Catalog[p].pkg_name
  IN /\ op.kind = "idle"
     /\ ops < MaxOps
     /\ ops' = ops + 1
     /\ IF k = 0
          THEN /\ last' = [kind |-> "remove", pkg |-> p, res |-> "notinstalled"]
               /\ UNCHANGED <<fsVars, tracker>>
          ELSE IF ~CanSlice(c)
            THEN /\ last' = [kind |-> "remove", pkg |-> p, res |-> "panic"]
                 /\ UNCHANGED <<fsVars, tracker>>
            ELSE \E isFile \in (IF bin[n].k = "foreign" THEN BOOLEAN ELSE {FALSE}) :
                   IF isFile
                     THEN /\ last' = [kind |-> "remove", pkg |-> p, res |-> "error"]
                          /\ UNCHANGED <<fsVars, tracker>>
                     ELSE /\ bin' = IF EntryExists(bin[n])
                                      THEN [bin EXCEPT ![n] = NoEntry] ELSE bin
                          /\ store' = RmDir(store, d)
                          /\ tracker' = unregister_package(tracker, p)
                          /\ last' = [kind |-> "remove", pkg |-> p, res |-> "ok"]
                          /\ UNCHANGED staging
     /\ UNCHANGED <<envVars, lock, op, queue, next, permits, w>>

\* ------------------------------------------------------------------ remove
\* Remover::execute, registry/package/remove.rs 21-43, with remove_symlink
\* (45-56) and remove_package_path (58-67); package/remove.rs 27-43 is the
\* same with the desktop links removed too. read_link fails on an entry that
\* is a file and not a symlink, and the remove stops there.
Remove(p) ==
  LET k == find_package(tracker, p)
      c == tracker[k].checksum
      d == get_install_dir(p, c)
      n == Catalog[p].pkg_name
  IN /\ op.kind = "idle"
     /\ ops < MaxOps
     /\ ops' = ops + 1
     /\ IF k = 0
          THEN /\ last' = [kind |-> "remove", pkg |-> p, res |-> "notinstalled"]
               /\ UNCHANGED <<fsVars, tracker>>
          ELSE IF ~CanSlice(c)
            THEN /\ last' = [kind |-> "remove", pkg |-> p, res |-> "panic"]
                 /\ UNCHANGED <<fsVars, tracker>>
            ELSE \E isFile \in (IF bin[n].k = "foreign" THEN BOOLEAN ELSE {FALSE}) :
                   IF isFile
                     THEN /\ last' = [kind |-> "remove", pkg |-> p, res |-> "error"]
                          /\ UNCHANGED <<fsVars, tracker>>
                     ELSE /\ bin' = IF EntryExists(bin[n]) /\ bin[n] = Link(d)
                                      THEN [bin EXCEPT ![n] = NoEntry] ELSE bin
                          /\ store' = RmDir(store, d)
                          /\ tracker' = unregister_package(tracker, p)
                          /\ last' = [kind |-> "remove", pkg |-> p, res |-> "ok"]
                          /\ UNCHANGED staging
     /\ UNCHANGED <<envVars, lock, op, queue, next, permits, w>>

\* --------------------------------------------------------------------- use
\* registry/mod.rs 386-397: the package that was not installed is handed to
\* install_packages as full_name('/'), which is resolved again; several
\* entries of that name are put to the user, who selects one (storage.rs
\* 62-66)
Reresolved(p) ==
  LET got == GetCatalog(parse_package_query(full_name(p, "/")))
  IN {got[j] : j \in 1 .. Len(got)}

\* PackageRegistry::use_package, registry/mod.rs 370-405, around
\* InstalledPackages::use_package, installed.rs 237-266: a package without a
\* record is installed with force and without yes
Use(p) ==
  LET k == find_package(tracker, p)
      c == tracker[k].checksum
      d == get_install_dir(p, c)
      n == Catalog[p].pkg_name
      e == bin[n]
      managed == e.k = "link" /\ store[e.dir].tag
      res == IF ~CanSlice(c) THEN "panic"
             ELSE IF EntryExists(e) /\ ~managed THEN "notmanaged"
             ELSE IF ~EntryExists(e) /\ e.k # "none" THEN "error"
             ELSE "ok"
  IN /\ op.kind = "idle"
     /\ ops < MaxOps
     /\ ops' = ops + 1
     /\ IF k = 0
          THEN /\ op' = [kind |-> "install", force |-> TRUE, yes |-> FALSE, parallel |-> FALSE]
               /\ \E chosen \in Reresolved(p) : queue' = <<chosen>>
               /\ next' = 1
               /\ permits' = parallel_limit
               /\ w' = [i \in Slots |-> Fresh]
               /\ last' = [kind |-> "use", pkg |-> p, res |-> "installing"]
               /\ UNCHANGED bin
          ELSE /\ bin' = IF res = "ok" THEN [bin EXCEPT ![n] = Link(d)] ELSE bin
               /\ last' = [kind |-> "use", pkg |-> p, res |-> res]
               /\ UNCHANGED <<op, queue, next, permits, w>>
     /\ UNCHANGED <<envVars, staging, store, tracker, lock>>

\* ------------------------------------------------------------ environment
\* the publisher replaces the object behind p's download_url; the catalog
\* the client holds still lists the old bsum
Publish(p) ==
  /\ op.kind = "idle"
  /\ served[p] = "listed"
  /\ served' = [served EXCEPT ![p] = "other"]
  /\ UNCHANGED <<ranges, metaVars, fsVars, tracker, lock, engineVars, permits, w>>

\* --------------------------------------------------------- specifications
Download(i) ==
  \/ WStart(i) \/ WStat(i) \/ WRequest(i) \/ WChunk(i) \/ WStreamEnd(i)

Promote(i) ==
  \/ WVerify(i) \/ WSum(i) \/ WSave(i) \/ WTag(i) \/ WSymlink(i) \/ WIntegrate(i)
  \/ WRegLock(i) \/ WRegister(i)

Clean ==
  /\ staging = [k \in StageKeys |-> NoFile]
  /\ store = <<>>
  /\ tracker = <<>>
  /\ lock = 0
  /\ op = Idle
  /\ queue = <<>>
  /\ next = 1
  /\ permits = parallel_limit
  /\ w = [i \in Slots |-> Fresh]
  /\ ops = 0
  /\ last = NoResult

\* load_or_fetch_packages has not run: no content in memory, no refetch made
NoLoad == [pc |-> "idle", content |-> <<>>, cached |-> FALSE, bad |-> FALSE, refetches |-> 0,
           rf |-> "none", res |-> "none", base |-> 0, runs |-> 0]

\* no query has been given
NoQuery == [input |-> <<>>, pc |-> "none", parsed |-> NoPQ, again |-> NoPQ, found |-> {},
            other |-> <<>>, refound |-> {}, order |-> <<>>, yes |-> FALSE, cands |-> <<>>,
            picked |-> 0, res |-> "none", order2 |-> <<>>, picked2 |-> 0]

\* <installs>/latest does not exist, nothing is being saved
NoLatest == [exists |-> FALSE, bytes |-> <<>>, pc |-> "idle", old |-> <<>>, new |-> <<>>,
             res |-> "none"]

\* handle_cli has not run
NoCli == [pc |-> "none", portable |-> FALSE, portable_home |-> FALSE, portable_config |-> FALSE,
          roots |-> {}, cachedir |-> FALSE, cachefiles |-> {}, awaited |-> FALSE, exit |-> 0]

\* no file has been classified
NoProbe == [bytes |-> <<>>, pc |-> "none", type |-> "none"]

\* no metadata run: nothing cached, no sidecar
NoMeta ==
  /\ remote = 1
  /\ cache = <<>>
  /\ sidecar = <<>>
  /\ loader = [pc |-> "idle", sum |-> <<>>, res |-> "none", runs |-> 0]
  /\ reg = NoLoad
  /\ latest = NoLatest
  /\ qry = NoQuery
  /\ cli = NoCli
  /\ probe = NoProbe

\* SpecDl: one package, installed again and again by a process that may be
\* stopped, from a server that may fail, honour Range or ignore it, and whose
\* object may be replaced between two runs.
InitDl ==
  /\ served = [p \in Pkgs |-> "listed"]
  /\ ranges \in BOOLEAN
  /\ bin = [n \in BinNames |-> NoEntry]
  /\ Clean
  /\ NoMeta

NextDl ==
  \/ \E yes \in BOOLEAN : StartInstall(<<1>>, TRUE, yes, FALSE)
  \/ SpawnSeq
  \/ FinishInstall
  \/ Kill
  \/ Publish(1)
  \/ \E i \in Slots :
       \/ Download(i) \/ Promote(i)
       \/ WNetFail(i) \/ WChunkError(i) \/ WPromptDelete(i) \/ WPromptKeep(i)

SpecDl == InitDl /\ [][NextDl]_vars

\* the staging file of worker i and the object its download_url serves
StageOf(i) == staging[temp_path(Pk(i))]
RemoteOf(i) == Obj(Pk(i), served[Pk(i)])

\* C7: when a worker resumes with a non-empty staging file (Range: bytes=L-)
\* and the server ignores the range and sends the full body, the staging file
\* is rewritten from zero: after the download it equals the remote object,
\* not the old L bytes followed by the full body.
C7_TruncatesOnFullBody ==
  \A i \in Slots :
    (w[i].pc = "verify" /\ ~ranges /\ w[i].dl > 0) => StageOf(i) = RemoteOf(i)

\* C8: with a server that honours Range and keeps serving the same object, a
\* run that resumes an interrupted download (it found L > 0 bytes in staging)
\* and meets no network failure ends with the artifact promoted, byte for byte
\* the object a single download fetches.
C8_ResumeEqualsSingle ==
  \A i \in Slots :
    (Finished(i) /\ ranges /\ served[Pk(i)] = "listed" /\ w[i].dl > 0 /\ w[i].err # "network")
      => /\ w[i].pc = "done"
         /\ HasArtifact(store, w[i].dir)
         /\ store[w[i].dir].file = Obj(Pk(i), "listed")

\* C9: a staging file longer than the remote object is discarded when the
\* worker starts and the download restarts from byte zero, so no worker ever
\* resumes from an offset beyond the end of the remote object.
C9_OversizedRestarts ==
  \A i \in Slots :
    (op.kind = "install" /\ w[i].pc \in {"request", "stream", "verify"})
      => w[i].dl <= ObjLen(served[Pk(i)])

\* Spec: install, forced reinstall, use and remove, one after the other, of a
\* plain ELF, of a package with a family that ships the same binary, and of a
\* FlatImage whose catalog bsum is "null"; the server serves the listed
\* objects or others, and <bin>/a may hold a file soar did not put there.
OpsPkgs == {1, 4, 5}

Init ==
  /\ \E o \in Objects : served = [p \in Pkgs |-> o]
  /\ ranges = TRUE
  /\ \E e \in {NoEntry, Foreign} : bin = [n \in BinNames |-> IF n = "a" THEN e ELSE NoEntry]
  /\ Clean
  /\ NoMeta

Next ==
  \/ \E p \in OpsPkgs, force, yes \in BOOLEAN : StartInstall(<<p>>, force, yes, FALSE)
  \/ SpawnSeq
  \/ FinishInstall
  \/ \E p \in OpsPkgs : Remove(p)
  \/ \E p \in OpsPkgs : Use(p)
  \/ \E i \in Slots :
       \/ Download(i) \/ Promote(i)
       \/ WPromptDelete(i) \/ WPromptKeep(i) \/ WSwitchYes(i) \/ WSwitchNo(i)

Spec == Init /\ [][Next]_vars

\* the catalog entry a tracker record belongs to
PkgOf(r) == CHOOSE p \in Pkgs : Matches(r, p)

\* install_path(R): the artifact path derived from a record's checksum and name
RecordDir(r) == [sum |-> r.checksum, name |-> r.name]

C4_RecordChecksumIsFileHash ==
  op.kind = "idle" =>
    \A k \in 1 .. Len(tracker) :
      bsum(PkgOf(tracker[k])) # NullSum =>
        /\ HasArtifact(store, RecordDir(tracker[k]))
        /\ calculate_checksum(store[RecordDir(tracker[k])].file) = tracker[k].checksum

\* C5: a remove of an installed package P leaves no tracker record matching P
\* and no install directory of P.
C5_RemoveLeavesNothing ==
  \A p \in Pkgs :
    (last.kind = "remove" /\ last.pkg = p /\ last.res # "notinstalled")
      => /\ ~is_installed(tracker, p)
         /\ \A d \in DOMAIN store : d.name # full_name(p, "-")

\* C6: no step of install, use or remove deletes or replaces an entry of <bin>
\* that lies outside <packages>/ or whose destination lacks the xattr.
NotOurs(e) == e.k = "foreign" \/ (e.k = "link" /\ HasArtifact(store, e.dir) /\ ~store[e.dir].tag)

C6_ForeignEntriesUntouched ==
  [][\A n \in BinNames : NotOurs(bin[n]) => bin'[n] = bin[n]]_vars

\* SpecTwo: one parallel install of two distinct resolved packages: two
\* unrelated ones, two that ship the same binary, or two with the same full
\* name in different collections; the network may fail.
TwoBatches == {<<1, 2>>, <<1, 4>>, <<1, 3>>}

InitTwo ==
  /\ served = [p \in Pkgs |-> "listed"]
  /\ ranges = TRUE
  /\ bin = [n \in BinNames |-> NoEntry]
  /\ Clean
  /\ NoMeta

NextTwo ==
  \/ \E b \in TwoBatches, yes \in BOOLEAN : ops = 0 /\ StartInstall(b, FALSE, yes, TRUE)
  \/ Spawn
  \/ FinishInstall
  \/ \E i \in Slots :
       \/ Download(i) \/ Promote(i)
       \/ WNetFail(i) \/ WChunkError(i)
       \/ WPromptDelete(i) \/ WPromptKeep(i) \/ WSwitchYes(i) \/ WSwitchNo(i)

SpecTwo == InitTwo /\ [][NextTwo]_vars

RecordsOf(p) == {k \in 1 .. Len(tracker) : Matches(tracker[k], p)}

\* C1: once both workers of a parallel install of two distinct packages have
\* finished without a download error, the tracker holds exactly one record for
\* each of them, with that package's version and checksum, and each
\* install_path holds that package's own bytes.
C1_BothInstalled ==
  (/\ op.kind = "install" /\ op.parallel /\ Len(queue) = 2
   /\ \A i \in {1, 2} : Finished(i) /\ w[i].err \notin {"network", "range"})
    => \A i \in {1, 2} :
         /\ Cardinality(RecordsOf(Pk(i))) = 1
         /\ \A k \in RecordsOf(Pk(i)) :
              /\ tracker[k].version = Catalog[Pk(i)].version
              /\ tracker[k].checksum = calculate_checksum(RemoteOf(i))
              /\ HasArtifact(store, RecordDir(tracker[k]))
              /\ store[RecordDir(tracker[k])].file = RemoteOf(i)

\* SpecPar: one parallel install of four packages with distinct staging
\* files, from a server that does not fail; the executor runs every task that
\* can run and the user answers every prompt.
FourBatch == <<1, 2, 4, 5>>

InitPar ==
  /\ served = [p \in Pkgs |-> "listed"]
  /\ ranges = TRUE
  /\ bin = [n \in BinNames |-> NoEntry]
  /\ Clean
  /\ NoMeta

NextPar ==
  \/ \E yes \in BOOLEAN : ops = 0 /\ StartInstall(FourBatch, FALSE, yes, TRUE)
  \/ Spawn
  \/ FinishInstall
  \/ \E i \in Slots : Download(i) \/ Promote(i) \/ WSwitchYes(i) \/ WSwitchNo(i)

SpecPar == InitPar /\ [][NextPar]_vars /\ WF_vars(NextPar)

InstalledRight(p) ==
  /\ Cardinality(RecordsOf(p)) = 1
  /\ \A k \in RecordsOf(p) :
       /\ tracker[k].checksum = calculate_checksum(Obj(p, served[p]))
       /\ HasArtifact(store, RecordDir(tracker[k]))
       /\ store[RecordDir(tracker[k])].file = Obj(p, served[p])

MaxVer == 3

installVars == <<served, ranges, fsVars, tracker, lock, engineVars, permits, w, reg, latest, qry, cli, probe>>
engineAndFiles == <<served, ranges, fsVars, tracker, lock, engineVars, permits, w, qry, cli, probe>>

\* what metadata.json.bsum serves for version v, and what the sidecar holds
\* when it does not exist (fs::read(..).unwrap_or_default())
RemoteBsum(v) == <<"bsum", v>>
NoBytes == <<>>

\* the normalised MessagePack catalog produced from version v
Normalised(v) == <<"packages", v>>

\* the repository publishes a new metadata.json and its .bsum
MPublish ==
  /\ remote < MaxVer
  /\ remote' = remote + 1
  /\ UNCHANGED <<cache, sidecar, loader, installVars>>

\* loader.rs 32-36: the cached catalog is read
ReadCache == IF cache = NoBytes THEN "error" ELSE "cached"

\* loader.rs 17-25: the remote checksum is fetched and compared with the sidecar
LoadChecksum ==
  /\ loader.pc = "idle"
  /\ loader.runs < MaxOps
  /\ IF RemoteBsum(remote) # sidecar
       THEN loader' = [loader EXCEPT !.pc = "fetch", !.sum = RemoteBsum(remote), !.res = "none",
                                     !.runs = @ + 1]
       ELSE loader' = [loader EXCEPT !.sum = RemoteBsum(remote), !.res = ReadCache, !.runs = @ + 1]
  /\ UNCHANGED <<remote, cache, sidecar, installVars>>

\* loader.rs 17-19, 32-36: the checksum request fails, the cache is trusted
LoadChecksumFail ==
  /\ loader.pc = "idle"
  /\ loader.runs < MaxOps
  /\ loader' = [loader EXCEPT !.sum = NoBytes, !.res = ReadCache, !.runs = @ + 1]
  /\ UNCHANGED <<remote, cache, sidecar, installVars>>

\* MetadataFetcher::execute, fetcher.rs 31-89: download, parse, normalise,
\* write the cache, fetch the icons
Fetch ==
  /\ loader.pc = "fetch"
  /\ cache' = Normalised(remote)
  /\ loader' = [loader EXCEPT !.pc = "write", !.res = "fetched"]
  /\ UNCHANGED <<remote, sidecar, installVars>>

\* fetcher.rs 41-44: the download or the parse fails, nothing is written
FetchFail ==
  /\ loader.pc = "fetch"
  /\ loader' = [loader EXCEPT !.pc = "write", !.res = "error"]
  /\ UNCHANGED <<remote, cache, sidecar, installVars>>

\* fetcher.rs 79-86: the cache is written, then fetch_icons fails
FetchIconsFail ==
  /\ loader.pc = "fetch"
  /\ cache' = Normalised(remote)
  /\ loader' = [loader EXCEPT !.pc = "write", !.res = "error"]
  /\ UNCHANGED <<remote, sidecar, installVars>>

\* loader.rs 26-28: whatever fetcher.execute returned, the checksum fetched
\* at the start is written to the sidecar, then the result is returned
WriteSidecar ==
  /\ loader.pc = "write"
  /\ sidecar' = loader.sum
  /\ loader' = [loader EXCEPT !.pc = "idle"]
  /\ UNCHANGED <<remote, cache, installVars>>

InitMeta ==
  /\ served = [p \in Pkgs |-> "listed"]
  /\ ranges = TRUE
  /\ bin = [n \in BinNames |-> NoEntry]
  /\ Clean
  /\ remote = 1
  /\ cache = NoBytes
  /\ sidecar = NoBytes
  /\ loader = [pc |-> "idle", sum |-> NoBytes, res |-> "none", runs |-> 0]
  /\ reg = NoLoad
  /\ latest = NoLatest
  /\ qry = NoQuery
  /\ cli = NoCli
  /\ probe = NoProbe

NextMeta ==
  \/ MPublish
  \/ LoadChecksum \/ LoadChecksumFail
  \/ Fetch \/ FetchFail \/ FetchIconsFail
  \/ WriteSidecar

SpecMeta == InitMeta /\ [][NextMeta]_vars

\* C10: after every run of the metadata pipeline, whether its refetch
\* succeeded or failed, the sidecar holds a remote checksum only if the cached
\* catalog was produced from the metadata with that checksum; and a run that
\* fetched a remote checksum different from the sidecar did not trust the
\* cache.
C10_SidecarMatchesCache ==
  (loader.pc = "idle" /\ loader.runs > 0) =>
    /\ \A v \in 1 .. MaxVer : sidecar = RemoteBsum(v) => cache = Normalised(v)
    /\ (loader.res = "cached" /\ loader.sum # NoBytes) => loader.sum = sidecar

\* ----------------------------------------------- loading the registry
\* rmp_serde decodes a complete catalog and rejects a truncated one
Truncated == <<"packages">>
Decodes(content) == Len(content) = 2 /\ content[1] = "packages"

\* a write of <registry>/<repo> that was cut short by a stop of the process
\* (fetcher.rs 79: fs::write is not atomic)
CorruptCache ==
  /\ reg.pc = "idle" /\ loader.pc = "idle"
  /\ Decodes(cache)
  /\ cache' = Truncated
  /\ UNCHANGED <<remote, sidecar, loader, installVars>>

\* registry/mod.rs 60-65: the cache file exists, so the loader runs; or it
\* does not, and the catalog is fetched
RStart ==
  /\ reg.pc = "idle" /\ loader.pc = "idle"
  /\ reg.runs < MaxOps
  /\ loader.runs < MaxOps
  /\ reg' = [NoLoad EXCEPT !.pc = IF cache # NoBytes THEN "load" ELSE "fetch",
                           !.base = loader.runs, !.runs = reg.runs + 1]
  /\ UNCHANGED <<remote, cache, sidecar, loader, served, ranges, fsVars, tracker, lock,
                 engineVars, permits, w, latest, qry, cli, probe>>

\* registry/mod.rs 62: loader.execute(repo) is entered
RLoader ==
  /\ reg.pc = "load" /\ loader.runs = reg.base
  /\ (LoadChecksum \/ LoadChecksumFail)

\* registry/mod.rs 62: loader.execute(repo).await? returns
RLoaded ==
  /\ reg.pc = "load" /\ loader.pc = "idle" /\ loader.runs > reg.base
  /\ IF loader.res = "error"
       THEN reg' = [reg EXCEPT !.pc = "idle", !.res = "error"]
       ELSE reg' = [reg EXCEPT !.pc = "decode", !.content = cache,
                               !.cached = (loader.res = "cached")]
  /\ UNCHANGED <<remote, cache, sidecar, loader, served, ranges, fsVars, tracker, lock,
                 engineVars, permits, w, latest, qry, cli, probe>>

\* registry/mod.rs 64: no cache file, fetcher.execute(repo).await? succeeds
RFetch ==
  /\ reg.pc = "fetch"
  /\ cache' = Normalised(remote)
  /\ reg' = [reg EXCEPT !.pc = "decode", !.content = Normalised(remote)]
  /\ UNCHANGED <<remote, sidecar, loader, served, ranges, fsVars, tracker, lock,
                 engineVars, permits, w, latest, qry, cli, probe>>

\* registry/mod.rs 64: fetcher.execute(repo).await? fails
RFetchFail ==
  /\ reg.pc = "fetch"
  /\ reg' = [reg EXCEPT !.pc = "idle", !.res = "error"]
  /\ UNCHANGED <<remote, cache, sidecar, loader, served, ranges, fsVars, tracker, lock,
                 engineVars, permits, w, latest, qry, cli, probe>>

\* registry/mod.rs 67-71: the content is deserialized; on Err the refetch is
\* announced
RDecode ==
  /\ reg.pc = "decode"
  /\ IF Decodes(reg.content)
       THEN reg' = [reg EXCEPT !.pc = "icons"]
       ELSE reg' = [reg EXCEPT !.pc = "refetch", !.bad = TRUE]
  /\ UNCHANGED <<remote, cache, sidecar, loader, served, ranges, fsVars, tracker, lock,
                 engineVars, permits, w, latest, qry, cli, probe>>

\* registry/mod.rs 72-74: the refetch succeeds and its content is
\* deserialized with `?`
RRefetch ==
  /\ reg.pc = "refetch"
  /\ cache' = Normalised(remote)
  /\ IF Decodes(Normalised(remote))
       THEN reg' = [reg EXCEPT !.pc = "icons", !.content = Normalised(remote),
                               !.refetches = @ + 1, !.rf = "ok"]
       ELSE reg' = [reg EXCEPT !.pc = "idle", !.content = Normalised(remote),
                               !.refetches = @ + 1, !.rf = "undecodable", !.res = "error"]
  /\ UNCHANGED <<remote, sidecar, loader, served, ranges, fsVars, tracker, lock,
                 engineVars, permits, w, latest, qry, cli, probe>>

\* a failed refetch is tried again instead of being returned
RRefetchFail_as_retry ==
  /\ reg.pc = "refetch"
  /\ reg' = [reg EXCEPT !.refetches = @ + 1, !.rf = "failed"]
  /\ UNCHANGED <<remote, cache, sidecar, loader, served, ranges, fsVars, tracker, lock,
                 engineVars, permits, w, latest, qry, cli, probe>>

\* registry/mod.rs 72: fetcher.execute(repo).await? fails, the error is returned
RRefetchFail ==
  /\ reg.pc = "refetch"
  /\ reg' = [reg EXCEPT !.pc = "idle", !.refetches = @ + 1, !.rf = "failed", !.res = "error"]
  /\ UNCHANGED <<remote, cache, sidecar, loader, served, ranges, fsVars, tracker, lock,
                 engineVars, permits, w, latest, qry, cli, probe>>

\* registry/mod.rs 72, fetcher.rs 79-86: the refetch writes the cache, then
\* fetch_icons fails and the error is returned
RRefetchIconsFail ==
  /\ reg.pc = "refetch"
  /\ cache' = Normalised(remote)
  /\ reg' = [reg EXCEPT !.pc = "idle", !.refetches = @ + 1, !.rf = "failed", !.res = "error"]
  /\ UNCHANGED <<remote, sidecar, loader, served, ranges, fsVars, tracker, lock,
                 engineVars, permits, w, latest, qry, cli, probe>>

\* registry/mod.rs 77-106: the catalog is added to the storage, the icons are
\* fetched and written
RIcons ==
  /\ reg.pc = "icons"
  /\ reg' = [reg EXCEPT !.pc = "idle", !.res = "ok"]
  /\ UNCHANGED <<remote, cache, sidecar, loader, served, ranges, fsVars, tracker, lock,
                 engineVars, permits, w, latest, qry, cli, probe>>

\* registry/mod.rs 88: try_join_all(icon_futures).await? fails
RIconsFail ==
  /\ reg.pc = "icons"
  /\ reg' = [reg EXCEPT !.pc = "idle", !.res = "error"]
  /\ UNCHANGED <<remote, cache, sidecar, loader, served, ranges, fsVars, tracker, lock,
                 engineVars, permits, w, latest, qry, cli, probe>>

InitLoad == InitMeta

NextLoad ==
  \/ MPublish
  \/ CorruptCache
  \/ RStart
  \/ RLoader
  \/ Fetch \/ FetchFail \/ FetchIconsFail
  \/ WriteSidecar
  \/ RLoaded
  \/ RFetch \/ RFetchFail
  \/ RDecode
  \/ RRefetch \/ RRefetchFail \/ RRefetchIconsFail
  \/ RIcons \/ RIconsFail

SpecLoad == InitLoad /\ [][NextLoad]_vars

\* C11: in a run of load_or_fetch_packages whose content failed to
\* deserialize, the catalog is refetched exactly once, and never otherwise;
\* when that refetch fails, or its content is rejected as well, the run ends
\* with an error and no second refetch is made.
C11_RefetchOnce ==
  /\ reg.refetches <= 1
  /\ reg.refetches = 1 => reg.bad
  /\ (reg.bad /\ reg.pc # "refetch") => reg.refetches = 1
  /\ reg.rf \in {"failed", "undecodable"} => (reg.pc = "idle" /\ reg.res = "error")

\* the cached file was truncated, and the one refetch failed
C11_Witness ==
  /\ reg.pc = "idle" /\ reg.cached /\ reg.bad
  /\ reg.refetches = 1 /\ reg.rf = "failed" /\ reg.res = "error"

\* ------------------------------------------------- a batch given by name
\* a name that resolve_package finds no catalog entry for (storage.rs 58-60)
Unknown == 0

\* storage.rs 81-85: every name is resolved, and the first Err is returned
AllResolved(names) == \A k \in 1 .. Len(names) : names[k] \in Pkgs

\* PackageStorage::install_packages, storage.rs 71-128, from the names
\* given on the command line
InstallNames(names, force, yes, parallel) ==
  IF AllResolved(names)
    THEN StartInstall(names, force, yes, parallel)
    ELSE /\ op.kind = "idle"
         /\ ops < MaxOps
         /\ ops' = ops + 1
         /\ last' = [kind |-> "install", pkg |-> Unknown, res |-> "notfound"]
         /\ UNCHANGED <<envVars, fsVars, tracker, lock, op, queue, next, permits, w>>

NameBatches == {<<1, 2>>, <<1, Unknown>>, <<Unknown, 2>>, <<1, 4>>}

\* the object behind the first package may differ from the one its bsum lists
InitBatch ==
  /\ \E o \in Objects : served = [p \in Pkgs |-> IF p = 1 THEN o ELSE "listed"]
  /\ ranges = TRUE
  /\ bin = [n \in BinNames |-> NoEntry]
  /\ Clean
  /\ NoMeta

NextBatch ==
  \/ \E names \in NameBatches, yes \in BOOLEAN : InstallNames(names, FALSE, yes, FALSE)
  \/ SpawnSeq
  \/ FinishInstall
  \/ \E i \in Slots :
       \/ Download(i) \/ Promote(i)
       \/ WNetFail(i) \/ WChunkError(i)
       \/ WPromptDelete(i) \/ WPromptKeep(i) \/ WSwitchYes(i) \/ WSwitchNo(i)

SpecBatch == InitBatch /\ [][NextBatch]_vars

\* C12: a batch in which one name fails is still started for the others:
\* every name that resolves and is not installed yet is handed to a worker,
\* and the operation runs on to its summary.
C12_OthersStillAttempted ==
  [][\A names \in NameBatches, yes \in BOOLEAN :
       InstallNames(names, FALSE, yes, FALSE) =>
         /\ op'.kind = "install"
         /\ \A k \in 1 .. Len(names) :
              (names[k] \in Pkgs /\ ~is_installed(tracker, names[k])) =>
                \E j \in 1 .. Len(queue') : queue'[j] = names[k]]_vars

\* --------------------------------------------------- saving the tracker
\* rmp_serde::to_vec(&self): the number of records, then the records
Encode(tr) == <<Len(tr)>> \o tr

\* InstalledPackages::deserialize accepts exactly a complete encoding
DecodesList(bytes) == Len(bytes) > 0 /\ bytes[1] = Len(bytes) - 1
Decode(bytes) == Tail(bytes)

SavePkgs == {1, 2}

\* installed.rs 87-110: register_package changes the list, then calls save
SRegister(p) ==
  /\ latest.pc = "idle"
  /\ ops < MaxOps
  /\ ops' = ops + 1
  /\ tracker' = register_package(tracker, p, bsum(p))
  /\ latest' = [latest EXCEPT !.pc = "save", !.old = tracker, !.new = tracker']
  /\ UNCHANGED <<served, ranges, remote, cache, sidecar, loader, reg, qry, cli, probe, fsVars, lock, op, queue,
                 next, last, permits, w>>

\* installed.rs 115-131: unregister_package changes the list, then calls save
SUnregister(p) ==
  /\ latest.pc = "idle"
  /\ ops < MaxOps
  /\ is_installed(tracker, p)
  /\ ops' = ops + 1
  /\ tracker' = unregister_package(tracker, p)
  /\ latest' = [latest EXCEPT !.pc = "save", !.old = tracker, !.new = tracker']
  /\ UNCHANGED <<served, ranges, remote, cache, sidecar, loader, reg, qry, cli, probe, fsVars, lock, op, queue,
                 next, last, permits, w>>

\* installed.rs 142: fs::write opens <installs>/latest itself, creating or
\* truncating it
SaveOpen ==
  /\ latest.pc = "save"
  /\ latest' = [latest EXCEPT !.exists = TRUE, !.bytes = <<>>, !.pc = "write"]
  /\ UNCHANGED <<engineAndFiles, remote, cache, sidecar, loader, reg>>

\* installed.rs 142: fs::write writes the encoded list into it, piece by piece
SaveWrite ==
  LET content == Encode(latest.new)
      n == Len(latest.bytes) + 1
  IN /\ latest.pc = "write"
     /\ latest' = [latest EXCEPT !.bytes = SubSeq(content, 1, n),
                                 !.pc = IF n = Len(content) THEN "idle" ELSE "write"]
     /\ UNCHANGED <<engineAndFiles, remote, cache, sidecar, loader, reg>>

\* the process stops, at any point
SaveStop ==
  /\ latest.pc \in {"idle", "save", "write"}
  /\ latest' = [latest EXCEPT !.pc = "stopped"]
  /\ UNCHANGED <<engineAndFiles, remote, cache, sidecar, loader, reg>>

\* InstalledPackages::new, installed.rs 37-61, in the next process
SaveNew ==
  /\ latest.pc = "stopped"
  /\ IF ~latest.exists
       THEN /\ tracker' = <<>>
            /\ latest' = [latest EXCEPT !.pc = "idle", !.res = "ok"]
       ELSE IF DecodesList(latest.bytes)
         THEN /\ tracker' = Decode(latest.bytes)
              /\ latest' = [latest EXCEPT !.pc = "idle", !.res = "ok"]
         ELSE /\ latest' = [latest EXCEPT !.pc = "failed", !.res = "error"]
              /\ UNCHANGED tracker
  /\ UNCHANGED <<served, ranges, remote, cache, sidecar, loader, reg, qry, cli, probe, fsVars, lock, op, queue,
                 next, ops, last, permits, w>>

InitSave == InitTwo

NextSave ==
  \/ \E p \in SavePkgs : SRegister(p) \/ SUnregister(p)
  \/ SaveOpen
  \/ SaveWrite
  \/ SaveStop
  \/ SaveNew

SpecSave == InitSave /\ [][NextSave]_vars

\* C13: whenever the process has stopped, <installs>/latest is absent (no
\* save was ever made) or decodes to the complete list of before the last
\* save or to the complete list that save was writing; InstalledPackages::new
\* never fails on it.
C13_SaveIsAtomic ==
  /\ latest.res # "error"
  /\ (latest.pc = "stopped" /\ latest.exists) =>
       /\ DecodesList(latest.bytes)
       /\ Decode(latest.bytes) \in {latest.old, latest.new}

\* ------------------------------------- a stop between promotion and record
\* the worker is past the rename of save_file (install.rs 286) and has not
\* returned from register_package (install.rs 244-249)
Promoted(i) == w[i].pc \in {"tag", "symlink", "integrate", "reglock", "register"}

\* the process is stopped while a worker is in that window
StopAfterPromote == Kill /\ \E i \in Slots : Promoted(i)

InitCrash == InitDl

NextCrash ==
  \/ \E yes \in BOOLEAN : StartInstall(<<1>>, FALSE, yes, FALSE)
  \/ SpawnSeq
  \/ FinishInstall
  \/ StopAfterPromote
  \/ \E i \in Slots : Download(i) \/ Promote(i)

SpecCrash == InitCrash /\ [][NextCrash]_vars

\* C14: an install without force that runs after a stop between promotion
\* and registration does not fail, and when its worker is done the tracker
\* holds exactly one record of the package, the artifact is at the record's
\* install_path and the bin symlink points at it.
C14_ReinstallCompletes ==
  \A i \in Slots :
    /\ w[i].pc # "failed"
    /\ w[i].pc = "done" =>
         /\ Cardinality(RecordsOf(Pk(i))) = 1
         /\ \A k \in RecordsOf(Pk(i)) :
              /\ HasArtifact(store, RecordDir(tracker[k]))
              /\ store[RecordDir(tracker[k])].file = Obj(Pk(i), "listed")
              /\ bin[Catalog[Pk(i)].pkg_name] = Link(RecordDir(tracker[k]))

\* the second run found the artifact of the stopped one at install_path,
\* with no record, and has finished
C14_Witness ==
  /\ ops >= 2
  /\ w[1].pc = "done"
  /\ Len(tracker) = 1

\* ------------------------------------------------ parsing a query string
QueryVarsRest == <<remote, cache, sidecar, loader, reg, latest, served, ranges, fsVars, tracker,
                   lock, engineVars, permits, w, cli, probe>>

\* the query string is parsed (storage.rs 57, 214)
QParse ==
  /\ qry.pc = "given"
  /\ qry' = [qry EXCEPT !.pc = "parsed", !.parsed = parse_package_query(qry.input)]
  /\ UNCHANGED QueryVarsRest

\* the parsed query is written back and parsed again
QReparse ==
  /\ qry.pc = "parsed"
  /\ qry' = [qry EXCEPT !.pc = "reparsed", !.again = parse_package_query(serialize(qry.parsed))]
  /\ UNCHANGED QueryVarsRest

InitParse ==
  /\ served = [p \in Pkgs |-> "listed"]
  /\ ranges = TRUE
  /\ bin = [n \in BinNames |-> NoEntry]
  /\ Clean
  /\ remote = 1
  /\ cache = NoBytes
  /\ sidecar = NoBytes
  /\ loader = [pc |-> "idle", sum |-> NoBytes, res |-> "none", runs |-> 0]
  /\ reg = NoLoad
  /\ latest = NoLatest
  /\ \E s \in Strings(MaxQuery) : qry = [NoQuery EXCEPT !.input = s, !.pc = "given"]
  /\ cli = NoCli
  /\ probe = NoProbe

NextParse == QParse \/ QReparse

SpecParse == InitParse /\ [][NextParse]_vars

\* C15: for every query string, parsing the written-back form of the parsed
\* query gives the same name, family and collection as parsing the string.
C15_ParseRoundTrip ==
  qry.pc = "reparsed" => qry.again = qry.parsed

\* ------------------------------------------------ the package storage
\* std::env::consts::ARCH as a segment of a download_url
ARCH == <<"x">>

\* what metadata.json lists: per repository and collection key, the pkg of
\* an entry and the last directory of its download_url
Metadata ==
  << [repo |-> "r", collection |-> <<"b">>, pkg |-> <<"c">>, segment |-> <<"g">>],
     [repo |-> "r", collection |-> <<"b">>, pkg |-> <<"c">>, segment |-> <<"m">>],
     [repo |-> "r", collection |-> <<"g">>, pkg |-> <<"c">>, segment |-> ARCH],
     [repo |-> "r", collection |-> <<"b">>, pkg |-> <<"b">>, segment |-> ARCH],
     [repo |-> "s", collection |-> <<"b">>, pkg |-> <<"C">>, segment |-> ARCH],
     [repo |-> "s", collection |-> <<"C">>, pkg |-> <<"g">>, segment |-> <<"C">>] >>

Entries == 1 .. Len(Metadata)

\* fetcher.rs 46-67: an entry is filed under its collection key and its
\* lowercased pkg; its family is the segment unless that is the architecture
Stored(e) ==
  [repo |-> Metadata[e].repo,
   collection |-> Metadata[e].collection,
   key |-> to_lowercase(Metadata[e].pkg),
   pkg |-> Metadata[e].pkg,
   family |-> IF Metadata[e].segment = ARCH THEN None ELSE Some(Metadata[e].segment)]

\* a lookup that does not look at the family
get_packages_as_any_family(query) ==
  {e \in Entries :
     /\ ~query.collection.some \/ Stored(e).collection = query.collection.v
     /\ Stored(e).key = trim(query.name)
     /\ Stored(e).pkg = trim(query.name)}

\* PackageStorage::get_packages, storage.rs 287-326: the entries found, the
\* empty set standing for None
get_packages(query) ==
  {e \in Entries :
     /\ ~query.collection.some \/ Stored(e).collection = query.collection.v
     /\ Stored(e).key = trim(query.name)
     /\ Stored(e).pkg = trim(query.name)
     /\ ~query.family.some \/ Stored(e).family = query.family}

\* storage.rs 57-60: the parsed query is looked up
QGet ==
  /\ qry.pc = "parsed"
  /\ qry' = [qry EXCEPT !.pc = "found", !.found = get_packages(qry.parsed)]
  /\ UNCHANGED QueryVarsRest

InitQuery == InitParse

NextQuery == QParse \/ QGet

SpecQuery == InitQuery /\ [][NextQuery]_vars

\* the entries a query names: same name, same collection when one is given,
\* same family when one is given
Named(q, name) ==
  {e \in Entries :
     /\ Metadata[e].pkg = name
     /\ q.collection.some => Metadata[e].collection = q.collection.v
     /\ q.family.some => Stored(e).family = q.family}

\* C16 (as stated): get_packages returns exactly the entries whose name
\* equals query.name, whose collection equals query.collection when one is
\* given and whose family equals query.family when one is given.
C16_ExactlyTheNamed ==
  qry.pc = "found" => qry.found = Named(qry.parsed, qry.parsed.name)

\* C16 (amended): get_packages returns exactly the entries whose name equals
\* query.name without its leading and trailing whitespace, whose collection
\* equals query.collection when one is given and whose family equals
\* query.family when one is given; the name alone finds both families of an
\* entry, and family/name finds one.
C16_ExactlyTheNamedTrimmed ==
  qry.pc = "found" =>
    /\ qry.found = Named(qry.parsed, trim(qry.parsed.name))
    /\ qry.input = <<"c">> => {1, 2} \subseteq qry.found
    /\ qry.input = <<"g", "/", "c">> => qry.found = {1}

\* the query g/c was looked up and found one of the two families of c
C16_Witness ==
  /\ qry.pc = "found"
  /\ qry.input = <<"g", "/", "c">>
  /\ Cardinality(qry.found) = 1

\* ---------------------------------------------------- the case of a query
\* the same query typed in another case
Recasings(s) == {t \in Strings(Len(s)) : Len(t) = Len(s) /\ to_lowercase(t) = to_lowercase(s)}

\* storage.rs 57-60 once more, for a recasing of the query
QRecase ==
  /\ qry.pc = "found"
  /\ \E t \in Recasings(qry.input) :
       qry' = [qry EXCEPT !.pc = "refound", !.other = t,
                          !.refound = get_packages(parse_package_query(t))]
  /\ UNCHANGED QueryVarsRest

InitCase == InitParse

NextCase == QParse \/ QGet \/ QRecase

SpecCase == InitCase /\ [][NextCase]_vars

\* the entries a query names when case is ignored in the three fields
NamedAnyCase(q) ==
  {e \in Entries :
     /\ to_lowercase(Metadata[e].pkg) = to_lowercase(trim(q.name))
     /\ q.collection.some => to_lowercase(Metadata[e].collection) = to_lowercase(q.collection.v)
     /\ q.family.some =>
          /\ Stored(e).family.some
          /\ to_lowercase(Stored(e).family.v) = to_lowercase(q.family.v)}

\* C17: matching ignores case in the three fields: a query and any recasing
\* of it return the same packages, and these are the entries whose name,
\* collection key and family equal the query's up to case, entries written
\* with upper-case letters included.
C17_CaseInsensitive ==
  /\ qry.pc = "refound" => qry.refound = qry.found
  /\ qry.pc \in {"found", "refound"} => qry.found = NamedAnyCase(qry.parsed)

\* ----------------------------------------------------- the exit status
\* lib.rs 238-242 and main.rs 11-13: an Err that reaches init or main is
\* logged and the function returns, so the process ends with status 0; only
\* a panic ends it otherwise (status 101)
ExitCode(l) == IF l.res = "panic" THEN 101 ELSE 0

\* C18: a remove of a package that has no tracker record reports "not
\* installed", leaves the tracker, the store and <bin> as they are, and ends
\* with a non-zero exit status.
C18_RemoveAbsentIsError ==
  [][\A p \in OpsPkgs :
       (Remove(p) /\ ~is_installed(tracker, p)) =>
         /\ last'.res = "notinstalled"
         /\ UNCHANGED <<tracker, store, bin>>
         /\ ExitCode(last') # 0]_vars

\* ------------------------------------------------------------------ update
\* registry/package/update.rs 40-54: each record's name is parsed as a
\* query, its collection is set, and the first entry found is kept
RECURSIVE Candidates(_)
Candidates(tr) ==
  IF tr = <<>> THEN <<>>
  ELSE LET query == [parse_package_query(Head(tr).name) EXCEPT
                       !.collection = Some(Head(tr).collection)]
           got == GetCatalog(query)
       IN (IF got = <<>> THEN <<>> ELSE <<got[1]>>) \o Candidates(Tail(tr))

\* registry/package/update.rs 61-65: the record an entry is compared with
InstalledAs(tr, p) ==
  {k \in 1 .. Len(tr) :
     /\ tr[k].repo_name = Catalog[p].repo
     /\ tr[k].name = full_name(p, "/")
     /\ tr[k].collection = Catalog[p].collection}

\* registry/package/update.rs 57-75: the entries whose record has another
\* checksum than the catalog
packages_to_update(tr) ==
  SelectSeq(Candidates(tr),
            LAMBDA p :
              /\ InstalledAs(tr, p) # {}
              /\ LET k == CHOOSE k \in InstalledAs(tr, p) : \A j \in InstalledAs(tr, p) : k <= j
                 IN tr[k].checksum # bsum(p))

\* the holder of the tracker mutex while PackageRegistry::update runs:
\* registry/mod.rs 309 locks installed_packages and passes the guard to
\* Updater::execute, which keeps it until it returns
UpdaterGuard == 5

\* PackageRegistry::update, registry/mod.rs 308-312, with Updater::execute
\* without package names, registry/package/update.rs 27-80: the tracker is
\* locked, the selection is made, then "No updates available" (the call
\* returns and the guard is dropped) or the first install
Update ==
  /\ op.kind = "idle"
  /\ ops < MaxOps
  /\ lock = 0
  /\ ops' = ops + 1
  /\ IF packages_to_update(tracker) = <<>>
       THEN /\ last' = [kind |-> "update", pkg |-> 0, res |-> "noupdates"]
            /\ UNCHANGED <<op, queue, next, permits, w, lock>>
       ELSE /\ op' = [kind |-> "update", force |-> TRUE, yes |-> FALSE, parallel |-> FALSE]
            /\ queue' = packages_to_update(tracker)
            /\ next' = 1
            /\ permits' = parallel_limit
            /\ w' = [i \in Slots |-> Fresh]
            /\ last' = NoResult
            /\ lock' = UpdaterGuard
  /\ UNCHANGED <<envVars, fsVars, tracker>>

\* registry/package/update.rs 81-95: the next install starts when the one
\* before it has succeeded. The install begins with
\* installed_packages.lock().await (install.rs 61-65), see WStart.
SpawnUpdate ==
  /\ op.kind = "update"
  /\ next <= Len(queue)
  /\ IF next = 1 THEN TRUE ELSE w[next - 1].pc = "done"
  /\ w' = [w EXCEPT ![next].pc = "start"]
  /\ next' = next + 1
  /\ UNCHANGED <<envVars, fsVars, tracker, lock, op, queue, ops, last, permits>>

UpdPkgs == {1, 4, 5}

InitUpdate == Init

NextUpdate ==
  \/ \E p \in UpdPkgs, yes \in BOOLEAN : StartInstall(<<p>>, FALSE, yes, FALSE)
  \/ SpawnSeq
  \/ FinishInstall
  \/ Update
  \/ SpawnUpdate
  \/ \E i \in Slots :
       \/ Download(i) \/ Promote(i)
       \/ WPromptDelete(i) \/ WPromptKeep(i) \/ WSwitchYes(i) \/ WSwitchNo(i)

SpecUpdate == InitUpdate /\ [][NextUpdate]_vars

\* the packages whose record has another checksum than the catalog
Outdated(tr) == {p \in Pkgs : \E k \in 1 .. Len(tr) : Matches(tr[k], p) /\ tr[k].checksum # bsum(p)}

\* C19: update without names hands to the install engine, with force,
\* exactly the packages whose record has a checksum other than the bsum of
\* the catalog entry of the same repository, collection and full name,
\* packages with a family included, and no other.
C19_UpdatesExactlyOutdated ==
  [][Update =>
       IF Outdated(tracker) = {}
         THEN op'.kind = "idle" /\ last'.res = "noupdates"
         ELSE /\ op'.kind = "update" /\ op'.force
              /\ {queue'[j] : j \in 1 .. Len(queue')} = Outdated(tracker)]_vars

\* ------------------------------------------------------ what use leaves
\* <bin>/<binary_name> of p is a symlink to the install path of p's record
LinkedTo(b, tr, p) ==
  /\ is_installed(tr, p)
  /\ b[Catalog[p].pkg_name] = Link(RecordDir(tr[find_package(tr, p)]))

\* C20: after a use of P that succeeded, <bin>/<binary_name> is a symlink to
\* the install path of P; for an installed P the use changed the symlink
\* only, tracker and store are as before; for a P that was not installed,
\* P is installed when the use has finished.
C20_UseLinksP ==
  /\ [][\A p \in OpsPkgs :
          (Use(p) /\ is_installed(tracker, p) /\ last'.res = "ok") =>
            /\ LinkedTo(bin', tracker', p)
            /\ UNCHANGED <<tracker, store>>]_vars
  /\ []((op.kind = "idle" /\ last.kind = "use" /\ last.res = "installing" /\ w[1].pc = "done") =>
          LinkedTo(bin, tracker, last.pkg))

\* ------------------------------------------------------ the start of a run
\* the directories setup_required_paths creates, core/util.rs 162-202
RequiredPaths == {"bin", "registry", "installs", "packages"}

\* an entry of the cache directory: whether it carries user.managed_by = soar
\* and whether it was modified more than cache_ttl seconds ago
CacheFiles == [managed : BOOLEAN, stale : BOOLEAN]

CliVarsRest == <<served, ranges, staging, store, tracker, lock, engineVars, permits, w,
                 remote, cache, sidecar, loader, reg, latest, qry, probe>>

\* lib.rs 61-62: setup_required_paths creates the directories that are missing
CliPaths ==
  /\ cli.pc = "parsed"
  /\ cli' = [cli EXCEPT !.pc = "paths", !.roots = @ \cup RequiredPaths]
  /\ UNCHANGED <<bin, CliVarsRest>>

\* remove_broken_symlink, core/util.rs 261-271: every entry of <bin> that is
\* not (a link to) a regular file is unlinked
remove_broken_symlink(b) ==
  [n \in DOMAIN b |-> IF b[n].k = "link" /\ ~HasArtifact(store, b[n].dir) THEN NoEntry ELSE b[n]]

\* lib.rs 76-77, cleanup, core/util.rs 238-259: when the cache directory can
\* be read, its managed entries older than cache_ttl are removed, then the
\* broken symlinks of <bin>; the result is dropped
CliCleanup ==
  /\ cli.pc = "paths"
  /\ IF cli.cachedir
       THEN /\ cli' = [cli EXCEPT !.pc = "cleaned",
                                  !.cachefiles = {f \in @ : ~(f.managed /\ f.stale)}]
            /\ bin' = remove_broken_symlink(bin)
       ELSE /\ cli' = [cli EXCEPT !.pc = "cleaned"]
            /\ UNCHANGED bin
  /\ UNCHANGED CliVarsRest

\* lib.rs 79-109: Commands::Install checks the portable options, then awaits
\* the registry (which loads or downloads the metadata) and installs
CliInstall ==
  /\ cli.pc = "cleaned"
  /\ IF cli.portable /\ (cli.portable_home \/ cli.portable_config)
       THEN cli' = [cli EXCEPT !.pc = "exited", !.exit = 1]
       ELSE cli' = [cli EXCEPT !.pc = "dispatched", !.awaited = TRUE]
  /\ UNCHANGED <<bin, CliVarsRest>>

\* SpecCli: soar install is started with any combination of the portable
\* options, in a root that is new, partly there or complete, with or without
\* a cache directory, and with <bin>/a absent, a file, or a symlink whose
\* destination is gone.
InitCli ==
  /\ served = [p \in Pkgs |-> "listed"]
  /\ ranges = TRUE
  /\ Clean
  /\ remote = 1
  /\ cache = NoBytes
  /\ sidecar = NoBytes
  /\ loader = [pc |-> "idle", sum |-> NoBytes, res |-> "none", runs |-> 0]
  /\ reg = NoLoad
  /\ latest = NoLatest
  /\ qry = NoQuery
  /\ probe = NoProbe
  /\ \E e \in {NoEntry, Foreign, Link(get_install_dir(1, bsum(1)))} :
       bin = [n \in BinNames |-> IF n = "a" THEN e ELSE NoEntry]
  /\ cli \in [pc : {"parsed"}, portable : BOOLEAN, portable_home : BOOLEAN,
              portable_config : BOOLEAN, roots : {{}, {"bin"}, RequiredPaths},
              cachedir : BOOLEAN, cachefiles : SUBSET CacheFiles, awaited : {FALSE}, exit : {0}]
  /\ bin["a"] # NoEntry => "bin" \in cli.roots
  /\ cli.cachefiles # {} => cli.cachedir

NextCli == CliPaths \/ CliCleanup \/ CliInstall

SpecCli == InitCli /\ [][NextCli]_vars

\* C21: an install given portable together with portable_home or
\* portable_config ends with an error, and no step of that run creates a
\* directory, removes a cache entry or a symlink, or awaits the registry.
C21_RejectedBeforeMutation ==
  /\ [](cli.pc = "exited" => cli.exit # 0)
  /\ [][(cli.portable /\ (cli.portable_home \/ cli.portable_config)) =>
          /\ cli'.roots = cli.roots
          /\ cli'.cachefiles = cli.cachefiles
          /\ bin' = bin
          /\ ~cli'.awaited]_vars

\* ------------------------------------------------------- the type of a file
\* core/constant.rs 14-16
ELF_MAGIC_BYTES == <<127, 69, 76, 70>>
APPIMAGE_MAGIC_BYTES == <<65, 73, 2, 0>>
FLATIMAGE_MAGIC_BYTES == <<70, 73, 1, 0>>

\* the four-byte blocks the files tried are made of: the three magics, an
\* ELF magic with its last byte changed, and zeros
Blocks == {ELF_MAGIC_BYTES, APPIMAGE_MAGIC_BYTES, FLATIMAGE_MAGIC_BYTES,
           <<127, 69, 76, 71>>, <<0, 0, 0, 0>>}

\* the lengths of the files tried: empty, shorter than the twelve bytes read,
\* exactly twelve, and longer
MagicLens == {0, 4, 8, 11, 12, 16}

\* get_file_type, core/file.rs 13-30: read_exact fails on a file shorter
\* than twelve bytes
get_file_type(bytes) ==
  IF Len(bytes) < 12 THEN "Unknown"
  ELSE LET magic_bytes == SubSeq(bytes, 1, 12)
       IN IF SubSeq(magic_bytes, 9, 12) = APPIMAGE_MAGIC_BYTES THEN "AppImage"
          ELSE IF SubSeq(magic_bytes, 9, 12) = FLATIMAGE_MAGIC_BYTES THEN "FlatImage"
          ELSE IF SubSeq(magic_bytes, 1, 4) = ELF_MAGIC_BYTES THEN "ELF"
          ELSE "Unknown"

ProbeVarsRest == <<served, ranges, fsVars, tracker, lock, engineVars, permits, w,
                   remote, cache, sidecar, loader, reg, latest, qry, cli>>

\* install.rs 212-213: the file at the install path is classified
Classify ==
  /\ probe.pc = "given"
  /\ probe' = [probe EXCEPT !.pc = "classified", !.type = get_file_type(probe.bytes)]
  /\ UNCHANGED ProbeVarsRest

\* SpecType: a file of up to sixteen bytes is classified
InitType ==
  /\ served = [p \in Pkgs |-> "listed"]
  /\ ranges = TRUE
  /\ bin = [n \in BinNames |-> NoEntry]
  /\ Clean
  /\ remote = 1
  /\ cache = NoBytes
  /\ sidecar = NoBytes
  /\ loader = [pc |-> "idle", sum |-> NoBytes, res |-> "none", runs |-> 0]
  /\ reg = NoLoad
  /\ latest = NoLatest
  /\ qry = NoQuery
  /\ cli = NoCli
  /\ \E a, b, c, d \in Blocks, n \in MagicLens :
       probe = [NoProbe EXCEPT !.bytes = SubSeq(a \o b \o c \o d, 1, n), !.pc = "given"]

NextType == Classify

SpecType == InitType /\ [][NextType]_vars

\* the bytes at offsets a .. b - 1 of a file, <<>> when it is shorter
Bytes(f, a, b) == IF Len(f) >= b THEN SubSeq(f, a + 1, b) ELSE <<>>

\* C22: a file of at least twelve bytes is an AppImage iff bytes 0..4 are
\* 7F 45 4C 46 and bytes 8..12 are 41 49 02 00, a FlatImage iff bytes 0..4 are
\* 7F 45 4C 46 and bytes 8..12 are 46 49 01 00, a plain ELF iff bytes 0..4 are
\* 7F 45 4C 46 and bytes 8..12 are neither; every file whose first four bytes
\* are not 7F 45 4C 46 is Unknown.
C22_ClassifiesByMagic ==
  probe.pc = "classified" =>
    LET f == probe.bytes
        elf == Bytes(f, 0, 4) = ELF_MAGIC_BYTES
    IN /\ Len(f) >= 12 =>
            /\ probe.type = "AppImage" <=> (elf /\ Bytes(f, 8, 12) = APPIMAGE_MAGIC_BYTES)
            /\ probe.type = "FlatImage" <=> (elf /\ Bytes(f, 8, 12) = FLATIMAGE_MAGIC_BYTES)
            /\ probe.type = "ELF" <=>
                 (elf /\ Bytes(f, 8, 12) \notin {APPIMAGE_MAGIC_BYTES, FLATIMAGE_MAGIC_BYTES})
       /\ ~elf => probe.type = "Unknown"

\* ------------------------------------------------ icons that cannot be had
\* C23: a step in which the download of a default icon fails does not end the
\* metadata fetch with an error: the fetcher returns the catalog it has
\* written, and load_or_fetch_packages ends with the catalog in the storage.
C23_IconFailureNotFatal ==
  [][/\ FetchIconsFail => (cache' = Normalised(remote) /\ loader'.res # "error")
     /\ RRefetchIconsFail => (cache' = Normalised(remote) /\ reg'.res # "error")
     /\ RIconsFail => reg'.res # "error"]_vars

\* ------------------------------------------------- the order of the stages
\* the points of Installer::execute in the order of its text, install.rs
\* 61-249
PcOrder == <<"none", "start", "stat", "request", "stream", "verify", "prompt", "sum", "save", "tag",
             "symlink", "askswitch", "integrate", "reglock", "register", "persist", "done">>

Rank(pc) == CHOOSE k \in 1 .. Len(PcOrder) : PcOrder[k] = pc

\* the stage a point belongs to: planned, download, verify, promote (with
\* the bin symlink that save_file is followed by), integrate, register, done
StageName(pc) ==
  IF pc = "none" THEN "Planned"
  ELSE IF pc \in {"start", "stat", "request", "stream"} THEN "Downloading"
  ELSE IF pc \in {"verify", "prompt"} THEN "Verifying"
  ELSE IF pc \in {"sum", "save", "tag", "symlink", "askswitch"} THEN "Promoting"
  ELSE IF pc = "integrate" THEN "Integrating"
  ELSE IF pc \in {"reglock", "register", "persist"} THEN "Registering"
  ELSE "Done"

Stages == <<"Planned", "Downloading", "Verifying", "Promoting", "Integrating", "Registering", "Done">>

StageNo(pc) == CHOOSE k \in 1 .. Len(Stages) : Stages[k] = StageName(pc)

Sink == {"failed", "killed", "done"}

\* C24: within one operation a worker goes through download, verify,
\* promote, integrate and register in this order: every step of a worker
\* stays in its stage or enters the next one or fails, no step returns to an
\* earlier point of a stage, and a worker that has failed or is done takes no
\* further step.
C24_StagesInOrder ==
  [][ops' = ops =>
       \A i \in Slots :
         w'[i] # w[i] =>
           /\ w[i].pc \notin Sink
           /\ w'[i].pc \notin {"failed", "killed"} =>
                /\ Rank(w'[i].pc) >= Rank(w[i].pc)
                /\ Rank(w'[i].pc) = Rank(w[i].pc) => w[i].pc = "stream"
                /\ StageNo(w'[i].pc) \in {StageNo(w[i].pc), StageNo(w[i].pc) + 1}]_vars

\* one worker has registered and is done, the other has failed on the way
C24_Witness ==
  \E i, j \in Slots : w[i].pc = "done" /\ w[j].pc = "failed" /\ w[j].err = "network"

\* ------------------------------------------- what a failed worker leaves
\* save_file, install.rs 287-288: set_permissions or xattr::set returns an
\* error (a file system without user xattrs), after the rename of line 286
WTagError(i) ==
  /\ w[i].pc = "tag"
  /\ Fail(w, i, "fs")
  /\ UNCHANGED <<envVars, fsVars, tracker, lock, engineVars>>

\* SpecFault: SpecDl on a file system that may refuse the xattr
InitFault == InitDl

NextFault ==
  \/ \E yes \in BOOLEAN : StartInstall(<<1>>, TRUE, yes, FALSE)
  \/ SpawnSeq
  \/ FinishInstall
  \/ Kill
  \/ Publish(1)
  \/ \E i \in Slots :
       \/ Download(i) \/ Promote(i)
       \/ WNetFail(i) \/ WChunkError(i) \/ WPromptDelete(i) \/ WPromptKeep(i)
       \/ WTagError(i)

SpecFault == InitFault /\ [][NextFault]_vars

\* C25: the step in which a worker fails leaves the staging file as it is,
\* and when the worker had opened it for the download the file exists after
\* the failure, with everything that was received; the one exception is the
\* mismatch that the user chose to delete.
C25_FailureKeepsStaging ==
  [][\A i \in Slots :
       (w[i].pc # "failed" /\ w'[i].pc = "failed" /\ w'[i].err # "checksum") =>
         /\ staging' = staging
         /\ Rank(w[i].pc) >= Rank("stream") => staging'[temp_path(Pk(i))] # NoFile]_vars

\* ------------------------------------------ registering under the mutex
\* installed.rs 93-108, 139: register_package changes the list in memory and
\* save serializes it, both under the guard taken at install.rs 245
WMutate(i) ==
  /\ w[i].pc = "register"
  /\ lock = i
  /\ latest.pc = "idle"
  /\ tracker' = register_package(tracker, Pk(i), w[i].sum)
  /\ latest' = [latest EXCEPT !.pc = "save", !.old = tracker, !.new = tracker']
  /\ Go(w, i, "persist")
  /\ UNCHANGED <<served, ranges, remote, cache, sidecar, loader, reg, qry, cli, probe, fsVars, lock,
                 engineVars>>

\* installed.rs 110-112, install.rs 248-249: save has returned, the guard is
\* dropped, the worker is counted and its permit released
WSaved(i) ==
  /\ w[i].pc = "persist"
  /\ lock = i
  /\ latest.pc = "idle"
  /\ lock' = 0
  /\ w' = [w EXCEPT ![i].pc = "done"]
  /\ Release
  /\ UNCHANGED <<envVars, fsVars, tracker, engineVars>>

\* SpecReg: one parallel install of two packages, the write of
\* <installs>/latest followed piece by piece
RegBatches == {<<1, 2>>, <<1, 4>>}

InitReg == InitTwo

NextReg ==
  \/ \E b \in RegBatches, yes \in BOOLEAN : ops = 0 /\ StartInstall(b, FALSE, yes, TRUE)
  \/ Spawn
  \/ FinishInstall
  \/ SaveOpen
  \/ SaveWrite
  \/ \E i \in Slots :
       \/ Download(i)
       \/ WVerify(i) \/ WSum(i) \/ WSave(i) \/ WTag(i) \/ WSymlink(i) \/ WIntegrate(i)
       \/ WSwitchYes(i) \/ WSwitchNo(i)
       \/ WRegLock(i) \/ WMutate(i) \/ WSaved(i)

SpecReg == InitReg /\ [][NextReg]_vars

\* the workers between the start of a tracker mutation and the end of its
\* persist
Registering == {i \in Slots : w[i].pc \in {"register", "persist"}}

\* C26: at most one worker at a time is between the start of a tracker
\* mutation and the end of its persist, and whenever no register call is
\* under way <installs>/latest decodes to a list that holds a record for
\* every worker whose register call has returned.
C26_NoRegistrationLost ==
  /\ Cardinality(Registering) <= 1
  /\ Registering # {} => lock \in Registering
  /\ (Registering = {} /\ \E i \in Slots : w[i].pc = "done") =>
       /\ DecodesList(latest.bytes)
       /\ \A i \in Slots :
            w[i].pc = "done" => is_installed(Decode(latest.bytes), Pk(i))

\* both workers of a parallel install have registered, and both records
\* are in the file
C26_Witness ==
  /\ w[1].pc = "done" /\ w[2].pc = "done"
  /\ latest.pc = "idle" /\ Len(Decode(latest.bytes)) = 2

\* --------------------------------------------- when the bin symlink moves
\* C27: a worker creates or repoints <bin>/<binary_name> only when its
\* integration has run and the tracker holds the record of its artifact; so
\* a worker that stops before it has registered leaves <bin> as it was.
C27_SymlinkAfterRegister ==
  [][\A i \in Slots :
       (ops' = ops /\ w'[i] # w[i] /\ bin' # bin) =>
         /\ Rank(w[i].pc) > Rank("integrate")
         /\ is_installed(tracker, Pk(i))
         /\ RecordDir(tracker[find_package(tracker, Pk(i))]) = w[i].dir]_vars

\* ------------------------------------------------- the owner of a symlink
\* SpecOwn: a package without a family and one with a family are installed
\* and installed again with force, the object behind the download_url
\* possibly replaced in between, so that the new artifact has another
\* install directory than the one <bin> points into.
OwnPkgs == {1, 4}

InitOwn ==
  /\ served = [p \in Pkgs |-> "listed"]
  /\ ranges = TRUE
  /\ bin = [n \in BinNames |-> NoEntry]
  /\ Clean
  /\ NoMeta

NextOwn ==
  \/ \E p \in OwnPkgs, yes \in BOOLEAN : StartInstall(<<p>>, TRUE, yes, FALSE)
  \/ SpawnSeq
  \/ FinishInstall
  \/ \E p \in OwnPkgs : Publish(p)
  \/ \E i \in Slots :
       \/ Download(i) \/ Promote(i)
       \/ WPromptDelete(i) \/ WPromptKeep(i) \/ WSwitchYes(i) \/ WSwitchNo(i)

SpecOwn == InitOwn /\ [][NextOwn]_vars

\* <bin>/<binary_name> of worker i's package points into an existing install
\* directory of the same full name, other than the one being installed
OwnedBySameName(i) ==
  LET e == bin[Catalog[Pk(i)].pkg_name]
  IN /\ e.k = "link" /\ HasArtifact(store, e.dir)
     /\ e.dir.name = full_name(Pk(i), "-")
     /\ e.dir # w[i].dir

\* C28: when <bin>/<binary_name> points into an install directory owned by
\* the full name that is being installed, with a family or without, the
\* worker replaces the symlink by one to the new artifact and asks nothing.
C28_SameOwnerNoPrompt ==
  [][\A i \in Slots :
       (WSymlink(i) /\ OwnedBySameName(i)) =>
         /\ w'[i].pc = "integrate"
         /\ bin'[Catalog[Pk(i)].pkg_name] = Link(w[i].dir)]_vars

\* ------------------------------------------------------ yes asks nothing
\* C29: in an install with yes no worker waits for an answer: a checksum
\* mismatch is accepted and the install goes on, and a bin symlink owned by
\* another package is switched without a question.
C29_YesNeverPrompts ==
  (op.kind = "install" /\ op.yes) =>
    \A i \in Slots :
      /\ w[i].pc \notin {"prompt", "askswitch"}
      /\ (w[i].verdict = "accepted" /\ w[i].pc # "failed") => Rank(w[i].pc) >= Rank("sum")

\* ------------------------------------------- the order of the candidates
\* PackageStorage.repository and RepositoryPackages.collection are HashMaps
\* (storage.rs 36, 42): a store is a set of (repository, collection) buckets,
\* each holding its entries in the order of metadata.json
Buckets == {<<Metadata[e].repo, Metadata[e].collection>> : e \in Entries}

InBucket(b) ==
  SelectSeq([e \in Entries |-> e], LAMBDA e : <<Metadata[e].repo, Metadata[e].collection>> = b)

\* HashMap::iter visits the keys in an order that the hasher's random keys
\* decide when the map is built: any order of the repositories and, within
\* each, any order of its collections
IterOrders ==
  {o \in [1 .. Cardinality(Buckets) -> Buckets] :
     /\ \A j, k \in DOMAIN o : j # k => o[j] # o[k]
     /\ \A j, k, l \in DOMAIN o : (j < k /\ k < l /\ o[j][1] = o[l][1]) => o[k][1] = o[j][1]}

\* PackageStorage::get_packages, storage.rs 287-326, as the Vec it collects:
\* the matching entries of each bucket, bucket after bucket as iter visits them
RECURSIVE Collect(_, _, _)
Collect(order, k, matching) ==
  IF k > Len(order) THEN <<>>
  ELSE SelectSeq(InBucket(order[k]), LAMBDA e : e \in matching) \o Collect(order, k + 1, matching)

get_packages_vec(order, query) == Collect(order, 1, get_packages(query))

\* the store of a process is built from the cached catalog (registry/mod.rs 67-77)
QBuild ==
  /\ qry.pc = "given"
  /\ \E o \in IterOrders, yes \in BOOLEAN :
       qry' = [qry EXCEPT !.pc = "built", !.order = o, !.yes = yes]
  /\ UNCHANGED QueryVarsRest

\* PackageStorage::resolve_package, storage.rs 56-69; select_single_package
\* returns the entry the user picks
QResolve ==
  LET got == get_packages_vec(qry.order, parse_package_query(qry.input))
  IN /\ qry.pc = "built"
     /\ IF got = <<>>
          THEN qry' = [qry EXCEPT !.pc = "resolved", !.cands = got, !.res = "notfound"]
          ELSE \E j \in (IF qry.yes \/ Len(got) = 1 THEN {1} ELSE 1 .. Len(got)) :
                 qry' = [qry EXCEPT !.pc = "resolved", !.cands = got, !.res = "ok",
                                    !.picked = got[j]]
     /\ UNCHANGED QueryVarsRest

\* the same command is run once more: another process builds its store from
\* the same cached catalog and resolves the same query
QResolveAgain ==
  /\ qry.pc = "resolved"
  /\ \E o \in IterOrders :
       LET got == get_packages_vec(o, parse_package_query(qry.input))
       IN qry' = [qry EXCEPT !.pc = "reresolved", !.order2 = o,
                             !.picked2 = IF got = <<>> THEN 0 ELSE got[1]]
  /\ UNCHANGED QueryVarsRest

InitResolve == InitParse

NextResolve == QBuild \/ QResolve \/ QResolveAgain

SpecResolve == InitResolve /\ [][NextResolve]_vars

\* the entries of a set in the order in which metadata.json lists them
InsertionOrder(found) == SelectSeq([e \in Entries |-> e], LAMBDA e : e \in found)

\* C30: get_packages returns the candidates in insertion order, whatever
\* store the catalog was loaded into, so that with yes and several
\* candidates every run selects the same package; one candidate is returned
\* as it is, and no candidate is a not-found error.
C30_StableSelection ==
  /\ qry.pc \in {"resolved", "reresolved"} =>
       /\ qry.cands = InsertionOrder(get_packages(parse_package_query(qry.input)))
       /\ qry.cands = <<>> <=> qry.res = "notfound"
       /\ Len(qry.cands) = 1 => qry.picked = qry.cands[1]
  /\ (qry.pc = "reresolved" /\ qry.yes) => qry.picked2 = qry.picked

\* ------------------------------------------- the tracker's list of records
\* SpecTrack: register_package and unregister_package called in any order,
\* with any package of the catalog and the checksum of either object, on a
\* tracker that is empty or holds records written under an earlier catalog.
OlderVersion == "a0"

TrackInputs ==
  {<<>>,
   <<[NewRecord(1, bsum(1)) EXCEPT !.version = OlderVersion]>>,
   <<[NewRecord(1, bsum(1)) EXCEPT !.version = OlderVersion], NewRecord(2, bsum(2))>>}

\* installed.rs 87-113
TRegister(p, checksum) ==
  /\ op.kind = "idle"
  /\ ops < MaxOps
  /\ ops' = ops + 1
  /\ tracker' = register_package(tracker, p, checksum)
  /\ last' = [kind |-> "register", pkg |-> p, res |-> "ok"]
  /\ UNCHANGED <<envVars, fsVars, lock, op, queue, next, permits, w>>

\* installed.rs 115-134: Err when is_installed is false, before any change
TUnregister(p) ==
  /\ op.kind = "idle"
  /\ ops < MaxOps
  /\ ops' = ops + 1
  /\ IF is_installed(tracker, p)
       THEN /\ tracker' = unregister_package(tracker, p)
            /\ last' = [kind |-> "unregister", pkg |-> p, res |-> "ok"]
       ELSE /\ last' = [kind |-> "unregister", pkg |-> p, res |-> "error"]
            /\ UNCHANGED tracker
  /\ UNCHANGED <<envVars, fsVars, lock, op, queue, next, permits, w>>

InitTrack ==
  /\ served = [p \in Pkgs |-> "listed"]
  /\ ranges = TRUE
  /\ bin = [n \in BinNames |-> NoEntry]
  /\ staging = [k \in StageKeys |-> NoFile]
  /\ store = <<>>
  /\ tracker \in TrackInputs
  /\ lock = 0
  /\ op = Idle
  /\ queue = <<>>
  /\ next = 1
  /\ permits = parallel_limit
  /\ w = [i \in Slots |-> Fresh]
  /\ ops = 0
  /\ last = NoResult
  /\ NoMeta

NextTrack ==
  \/ \E p \in Pkgs, o \in Objects : TRegister(p, calculate_checksum(Obj(p, o)))
  \/ \E p \in Pkgs : TUnregister(p)

SpecTrack == InitTrack /\ [][NextTrack]_vars

\* the key of a record
KeyOf(r) == <<r.repo_name, r.collection, r.name>>

KeysOf(tr) == [k \in 1 .. Len(tr) |-> KeyOf(tr[k])]

\* C31: the tracker never holds two records of one (repository, collection,
\* full name). A register of a key that is present leaves the number and the
\* order of the records as they were and changes only the version and the
\* checksum of that key's record (to the catalog entry's version and bsum); a
\* register of an absent key appends one record, which carries the checksum
\* passed in; an unregister of an absent key ends with an error and leaves
\* the list as it was, and one of a present key removes that record only.
C31_OneRecordPerKey ==
  /\ [](\A j, k \in 1 .. Len(tracker) : KeyOf(tracker[j]) = KeyOf(tracker[k]) => j = k)
  /\ [][\A p \in Pkgs :
          /\ \A o \in Objects :
               LET c == calculate_checksum(Obj(p, o))
                   k == find_package(tracker, p)
               IN TRegister(p, c) =>
                    IF k # 0
                      THEN /\ KeysOf(tracker') = KeysOf(tracker)
                           /\ tracker' = [tracker EXCEPT ![k].version = Catalog[p].version,
                                                         ![k].checksum = bsum(p)]
                      ELSE tracker' = Append(tracker, NewRecord(p, c))
          /\ TUnregister(p) =>
               IF is_installed(tracker, p)
                 THEN /\ last'.res = "ok"
                      /\ Len(tracker') = Len(tracker) - 1
                      /\ ~is_installed(tracker', p)
                 ELSE last'.res = "error" /\ tracker' = tracker]_vars

\* a tracker of at least two records, the first written under an earlier
\* catalog, has just had that record replaced in place
C31_Witness ==
  /\ last.kind = "register" /\ last.pkg = 1
  /\ Len(tracker) >= 2
  /\ Matches(tracker[1], 1)
  /\ tracker[1].version = Catalog[1].version

\* ------------------------------------------ installing what is installed
\* C32: an install, without force, of a package that has a tracker record
\* hands nothing to a worker and changes neither the tracker nor the store,
\* the staging files or <bin>, from its start to its summary; with force the
\* package is queued, its worker passes the is_installed check of
\* Installer::execute, and when that worker registers, the artifact is in
\* the install directory it promoted to and the package has a record.
C32_SkipUnlessForced ==
  [][/\ \A p \in OpsPkgs, force, yes \in BOOLEAN :
          (StartInstall(<<p>>, force, yes, FALSE) /\ is_installed(tracker, p)) =>
            /\ queue' = IF force THEN <<p>> ELSE <<>>
            /\ UNCHANGED <<tracker, staging, store, bin>>
     /\ (op.kind = "install" /\ queue = <<>>) =>
          /\ UNCHANGED <<tracker, staging, store, bin, w>>
          /\ op'.kind = "idle"
     /\ \A i \in Slots :
          /\ (WStart(i) /\ op.force) => w'[i].pc = "stat"
          /\ (WRegister(i) /\ op.force) =>
               /\ HasArtifact(store', w[i].dir)
               /\ is_installed(tracker', Pk(i))]_vars

\* a forced install of a package that has a record has promoted the new
\* artifact and is about to register it
C32_Witness ==
  /\ op.kind = "install" /\ op.force
  /\ Len(queue) = 1
  /\ is_installed(tracker, queue[1])
  /\ w[1].pc = "reglock"
  /\ HasArtifact(store, w[1].dir)

\* ----------------------------------------- remove and the other's symlink
\* SpecRm: three packages with the binary name "a" (two of them with the same
\* full name, in two collections) are installed, reinstalled and removed one
\* after the other.
RmPkgs == {1, 3, 4}

InitRm ==
  /\ \E o \in Objects : served = [p \in Pkgs |-> o]
  /\ ranges = TRUE
  /\ bin = [n \in BinNames |-> NoEntry]
  /\ Clean
  /\ NoMeta

NextRm ==
  \/ \E p \in RmPkgs, force, yes \in BOOLEAN : StartInstall(<<p>>, force, yes, FALSE)
  \/ SpawnSeq
  \/ FinishInstall
  \/ \E p \in RmPkgs : Remove(p)
  \/ \E i \in Slots :
       \/ Download(i) \/ Promote(i)
       \/ WPromptDelete(i) \/ WPromptKeep(i) \/ WSwitchYes(i) \/ WSwitchNo(i)

SpecRm == InitRm /\ [][NextRm]_vars

\* package b has a record and <bin>/<binary_name> points to the install path
\* of that record, where the artifact is
OwnsLink(b) ==
  LET k == find_package(tracker, b)
  IN /\ k # 0
     /\ bin[Catalog[b].pkg_name] = Link(RecordDir(tracker[k]))
     /\ HasArtifact(store, RecordDir(tracker[k]))

Nodes == {"DirIcon", "desktop", "png"}

LinkTargets == Nodes \cup {"gone"}

InnerNode ==
  {[k |-> "file", to |-> "none"], [k |-> "dir", to |-> "none"]}
    \cup {[k |-> "link", to |-> t] : t \in LinkTargets}

NoImage == [img |-> <<>>, todo |-> <<>>, entry |-> "none", node |-> "none", visited |-> {},
            pc |-> "none", out |-> {}, errs |-> {}]

\* appimage.rs 161-173: the next matching node, a new HashSet
XNext ==
  /\ probe.pc = "loop"
  /\ probe.todo # <<>>
  /\ probe' = [probe EXCEPT !.todo = Tail(probe.todo), !.entry = Head(probe.todo),
                            !.node = Head(probe.todo), !.visited = {}, !.pc = "resolve"]
  /\ UNCHANGED ProbeVarsRest

\* the call returns to the loop: Ok is followed by process_icon or
\* process_desktop, Err is logged (appimage.rs 173-183)
Returned(pr, res) ==
  [pr EXCEPT !.pc = "loop",
             !.out = IF res = "ok" THEN pr.out \cup {pr.entry} ELSE pr.out,
             !.errs = IF res = "ok" THEN pr.errs ELSE pr.errs \cup {<<pr.entry, res>>}]

\* resolve_and_extract without the visited set
XResolve_as_no_visited ==
  LET n == probe.img[probe.node]
  IN /\ probe.pc = "resolve"
     /\ probe' = IF n.k = "file" THEN Returned(probe, "ok")
                 ELSE IF n.k = "link"
                   THEN IF n.to \in Nodes
                          THEN [probe EXCEPT !.node = n.to]
                          ELSE Returned(probe, "notfound")
                   ELSE Returned(probe, "unexpected")
     /\ UNCHANGED ProbeVarsRest

\* one call of resolve_and_extract, appimage.rs 190-216
XResolve ==
  LET n == probe.img[probe.node]
  IN /\ probe.pc = "resolve"
     /\ probe' = IF n.k = "file" THEN Returned(probe, "ok")
                 ELSE IF n.k = "link"
                   THEN IF n.to \in probe.visited
                          THEN Returned(probe, "cycle")
                          ELSE IF n.to \in Nodes
                            THEN [probe EXCEPT !.node = n.to, !.visited = @ \cup {n.to}]
                            ELSE Returned([probe EXCEPT !.visited = @ \cup {n.to}], "notfound")
                   ELSE Returned(probe, "unexpected")
     /\ UNCHANGED ProbeVarsRest

\* appimage.rs 184-186: the loop is over
XDone ==
  /\ probe.pc = "loop"
  /\ probe.todo = <<>>
  /\ probe' = [probe EXCEPT !.pc = "finished"]
  /\ UNCHANGED ProbeVarsRest

InitImg ==
  /\ served = [p \in Pkgs |-> "listed"]
  /\ ranges = TRUE
  /\ bin = [n \in BinNames |-> NoEntry]
  /\ Clean
  /\ remote = 1
  /\ cache = <<>>
  /\ sidecar = <<>>
  /\ loader = [pc |-> "idle", sum |-> <<>>, res |-> "none", runs |-> 0]
  /\ reg = NoLoad
  /\ latest = NoLatest
  /\ qry = NoQuery
  /\ cli = NoCli
  /\ \E img \in [Nodes -> InnerNode], first \in {"DirIcon", "desktop"} :
       probe = [NoImage EXCEPT !.img = img, !.pc = "loop",
                               !.todo = <<first>> \o (IF first = "DirIcon" THEN <<"desktop">>
                                                      ELSE <<"DirIcon">>)]

NextImg == XNext \/ XResolve \/ XDone

\* the calls are synchronous: the thread that runs the loop runs each of them
SpecImg == InitImg /\ [][NextImg]_vars /\ WF_vars(NextImg)

\* C34: the extraction loop ends for every image. A call that follows a
\* symlink adds a target that was not in the visited set, so no target is
\* followed twice in one extraction; a symlink whose target is in the set
\* ends the extraction of that node with an error.
C34_ExtractionTerminates ==
  /\ <>(probe.pc = "finished")
  /\ [][(XResolve /\ probe.img[probe.node].k = "link") =>
          IF probe.img[probe.node].to \in probe.visited
            THEN probe'.pc = "loop" /\ <<probe.entry, "cycle">> \in probe'.errs
            ELSE /\ probe'.visited = probe.visited \cup {probe.img[probe.node].to}
                 /\ probe'.visited # probe.visited]_vars

\* the loop has ended on an image where a chain of symlinks came back to a
\* target it had visited
C34_Witness ==
  /\ probe.pc = "finished"
  /\ \E e \in {"DirIcon", "desktop"} : <<e, "cycle">> \in probe.errs

\* --------------------------------------------- one staging file per worker
\* C35: no two workers of a parallel install hold, at the same time, an open
\* append handle on the same staging file.
C35_StagingPathsDistinct ==
  \A i, j \in Slots :
    (i # j /\ w[i].h.k = "stage" /\ w[j].h.k = "stage") => w[i].h.key # w[j].h.key

\* ------------------------------------------ a complete staging file resumed
\* C36: an install that finds the whole artifact in its staging file goes on
\* to promote it: no worker whose staging file equals the remote object ends
\* on the answer to its range request.
C36_CompleteStagingPromoted ==
  \A i \in Slots :
    (op.kind = "install" /\ w[i].pc = "failed" /\ w[i].err = "range") => StageOf(i) # RemoteOf(i)

\* ------------------------------------------------- the configured limit
\* parallel_limit is an Option<u32> of the configuration (config.rs 36): any
\* value from 0 on can be configured. Largest value tried:
MaxLimit == 3

Limits == 0 .. MaxLimit

LimitBatches == {<<1, 2>>, <<1, 2, 5>>}

\* storage.rs 71-128 in parallel mode, with the configured limit as the
\* capacity of the semaphore (Semaphore::new(limit), storage.rs 128)
StartInstallLimit(b, yes, limit) ==
  /\ op.kind = "idle"
  /\ ops = 0
  /\ op' = [kind |-> "install", force |-> FALSE, yes |-> yes, parallel |-> TRUE]
  /\ queue' = ToInstall(b, FALSE)
  /\ next' = 1
  /\ permits' = limit
  /\ w' = [i \in Slots |-> Fresh]
  /\ ops' = ops + 1
  /\ last' = NoResult
  /\ UNCHANGED <<envVars, fsVars, tracker, lock>>

\* SpecLim: one parallel install under each configurable limit; downloads
\* may fail; the executor runs every task that can run.
InitLim == InitPar

NextLim ==
  \/ \E b \in LimitBatches, yes \in BOOLEAN, limit \in Limits : StartInstallLimit(b, yes, limit)
  \/ Spawn
  \/ FinishInstall
  \/ \E i \in Slots :
       \/ Download(i) \/ Promote(i)
       \/ WNetFail(i) \/ WChunkError(i)

SpecLim == InitLim /\ [][NextLim]_vars /\ WF_vars(NextLim)

C38_UpdaterNotHoldingLock ==
  \A i \in Slots :
    (op.kind = "update" /\ w[i].pc \in {"start", "reglock"}) => lock # UpdaterGuard

\* ------------------------------------------ what the symlinks of <bin> mean
\* C39: whenever no operation is running, every symlink of <bin> that leads
\* into <packages> points to an install path that exists and is the install
\* path of a tracker record.
C39_LinksLeadToRecordedInstalls ==
  op.kind = "idle" =>
    \A n \in BinNames :
      bin[n].k = "link" =>
        /\ HasArtifact(store, bin[n].dir)
        /\ \E k \in 1 .. Len(tracker) :
             RecordDir(tracker[k]) = bin[n].dir /\ tracker[k].bin_name = n

\* --------------------------------------- the record and the promoted path
\* C40: when a worker registers its package, after a first install or a
\* forced one, the install directory derived from the checksum the record
\* then holds and the package's full name is the directory the worker
\* promoted the artifact to.
C40_RecordDirIsPromotedDir ==
  [][\A i \in Slots :
       WRegister(i) =>
         LET k == find_package(tracker', Pk(i))
         IN /\ k # 0
            /\ CanSlice(tracker'[k].checksum)
            /\ get_install_dir(Pk(i), tracker'[k].checksum) = w[i].dir
            /\ HasArtifact(store', w[i].dir)]_vars

====
